---- MODULE Spec2Model ----
(***************************************************************************)
(* Model of the online estimators of signalkutilities:                     *)
(*   src/src/signalk/smoothers.js  MovingAverageSmoother,                  *)
(*                                 ExponentialSmoother, KalmanSmoother     *)
(*   src/src/signalk/Polar.js      PolarDamped                             *)
(*                                                                         *)
(* One object is under test in a behaviour; cls names its class.  JS       *)
(* numbers are modelled as exact rationals <<n, d>> (d > 0, lowest terms); *)
(* the other JS values are pairs with d <= 0.  Date.now() is the variable  *)
(* now, in milliseconds.                                                   *)
(***************************************************************************)
EXTENDS Integers, Sequences, FiniteSets, TLC

VARIABLES
  cls,    \* class of the object under test
  now,    \* the wall clock read by Date.now(), ms
  sm,     \* fields of the smoother instance
  pd,     \* fields of the PolarDamped instance and of its source Polar
  err,    \* message of the exception the last operation threw, or NoError
  hist,   \* history: the samples passed to add() since the last reset
  last,   \* history: the last operation, its arguments and the state before it
  ms,     \* fields of the MessageSmoother and its MessageHandler, or of the
          \* MessageHandler alone
  pl,     \* fields of the Polar or PolarSmoother instance
  pt,     \* fields of the PolarTable instance
  delivery \* history: the last delta the application delivered to the
          \* delta input handlers of a MessageHandler, and what they did

vars == <<cls, now, sm, pd, err, hist, last, ms, pl, pt, delivery>>

-----------------------------------------------------------------------------
(* Bounds of the model *)

MaxAdds == 3       \* add() / sample() calls between two resets
MaxTicks == 4      \* half seconds the clock may advance
MaxSubscribes == 2 \* subscribe() calls on one MessageHandler

-----------------------------------------------------------------------------
(* JS values *)

NaN == <<0, 0>>
INF == <<1, 0>>
NEGINF == <<-1, 0>>
NULL == <<0, -1>>
UNDEF == <<0, -2>>
NoError == "none"

Abs(x) == IF x < 0 THEN -x ELSE x

RECURSIVE GCD(_, _)
GCD(a, b) == IF b = 0 THEN a ELSE GCD(b, a % b)

\* The rational n/d in lowest terms with a positive denominator (d # 0).
Rat(n, d) ==
  LET g == GCD(Abs(n), Abs(d))
      s == IF d < 0 THEN -1 ELSE 1
  IN  <<(s * n) \div g, (s * d) \div g>>

RInt(n) == <<n, 1>>
Zero == RInt(0)
One == RInt(1)

IsRat(x) == x[2] > 0

\* Sums and products cancel common factors before they multiply.
RAdd(a, b) ==
  LET g == GCD(a[2], b[2])
  IN  Rat(a[1] * (b[2] \div g) + b[1] * (a[2] \div g), (a[2] \div g) * b[2])

RNeg(a) == <<-a[1], a[2]>>
RSub(a, b) == RAdd(a, RNeg(b))

RMul(a, b) ==
  LET g == GCD(Abs(a[1]), b[2])
      h == GCD(Abs(b[1]), a[2])
  IN  Rat((a[1] \div g) * (b[1] \div h), (a[2] \div h) * (b[2] \div g))

RLt(a, b) == RSub(a, b)[1] < 0
RLe(a, b) == RSub(a, b)[1] <= 0
RSq(a) == RMul(a, a)

\* JS division: 0/0 is NaN, x/0 is +-Infinity.
RDiv(a, b) ==
  IF b[1] = 0
  THEN IF a[1] = 0 THEN NaN ELSE IF a[1] > 0 THEN INF ELSE NEGINF
  ELSE Rat(a[1] * b[2], a[2] * b[1])

\* JS `x || dflt`: undefined, null, 0 and NaN are falsy.
OrDefault(x, dflt) == IF x \in {UNDEF, NULL, NaN} \/ x = Zero THEN dflt ELSE x

\* JS ToNumber(x) of a number, null or undefined.
ToNumber(x) == IF x = NULL THEN Zero ELSE IF x = UNDEF THEN NaN ELSE x

\* JS isFinite(x): false for undefined, NaN and the infinities.
IsFiniteJS(x) == ToNumber(x) \notin {NaN, INF, NEGINF}

\* JS `a <= b` and `a >= b`: false when either side is NaN.
JSLe(a, b) ==
  LET x == ToNumber(a)
      y == ToNumber(b)
  IN  x # NaN /\ y # NaN /\ x[1] * y[2] <= y[1] * x[2]

JSGe(a, b) == JSLe(b, a)

\* JS `typeof x === 'number' && !isNaN(x)`
IsNumberJS(x) == x \notin {NULL, UNDEF, NaN}

\* Math.exp(-k/4), k = 1..16, as the nearest fraction with a small
\* denominator (within 0.005 of the value), strictly decreasing in k.
ExpNegQuarter ==
  <<Rat(7, 9), Rat(11, 18), Rat(9, 19), Rat(7, 19), Rat(2, 7), Rat(2, 9),
    Rat(3, 17), Rat(2, 15), Rat(2, 19), Rat(1, 12), Rat(1, 16), Rat(1, 20),
    Rat(1, 26), Rat(1, 33), Rat(1, 42), Rat(1, 55)>>

\* Math.exp(-x) for a rational x >= 0 that is a multiple of 1/4.
ExpNeg(x) ==
  LET k == (4 * x[1]) \div x[2]
  IN  IF k = 0 THEN One ELSE ExpNegQuarter[k]

\* Sum of a sequence of rationals (Array.prototype.reduce from 0).
RECURSIVE RSum(_)
RSum(s) == IF s = <<>> THEN Zero ELSE RAdd(s[1], RSum(Tail(s)))

-----------------------------------------------------------------------------
(* Inputs *)

StartTimes == {1000}
ClockSteps == {500, 1000}    \* ms the clock advances between two calls
ReadGaps == {0, 500}         \* ms between the two Date.now() of one add()
LastTick == 1000 + 500 * MaxTicks

Classes == {"MovingAverage", "Exponential", "Kalman", "PolarDamped"}

NoOptions ==
  [timeSpan |-> UNDEF, tau |-> UNDEF, processVariance |-> UNDEF,
   measurementVariance |-> UNDEF, steadyState |-> UNDEF]

MovingAverageOptions ==
  {[NoOptions EXCEPT !.timeSpan = t] : t \in {UNDEF, Zero, Rat(1, 4), One}}

MovingAverageValues == {RInt(1), RInt(2), RInt(3)}

ExponentialOptions ==
  {[NoOptions EXCEPT !.tau = t] : t \in {UNDEF, Zero, One, RInt(2)}}

ExponentialValues == {RInt(10), RInt(20)}

\* Either the two variances, or the steady-state gain alone.
KalmanOptions ==
  {[NoOptions EXCEPT !.processVariance = q, !.measurementVariance = r] :
     q \in {UNDEF, Zero, One}, r \in {UNDEF, One, RInt(4)}}
  \cup
  {[NoOptions EXCEPT !.steadyState = k] :
     k \in {RInt(-1), Zero, Rat(1, 4), Rat(1, 2), Rat(3, 4), One, RInt(2),
            INF}}

KalmanValues == {RInt(10), RInt(12)}

\* The measurementVariance argument of add(); UNDEF when it is left out.
KalmanSampleVariances == {UNDEF, RInt(-1), Zero, One, RInt(4)}

TimeConstants == {Zero, One, RInt(2)}

\* (x, y) of the source Polar
PolarVectors == {<<One, Zero>>, <<Zero, One>>, <<RInt(2), RInt(2)>>}

NoSmoother ==
  [options |-> NoOptions, estimate |-> UNDEF, variance |-> UNDEF,
   timeSpan |-> UNDEF, window |-> <<>>, tau |-> UNDEF, lastTime |-> UNDEF,
   processVariance |-> UNDEF, measurementVariance |-> UNDEF]

NoPolarDamped == [timeConstant |-> UNDEF]

NoMessageSmoother == [n |-> 0]

NoPolar == [n |-> 0]

NoTable == [n |-> 0]
NoDelivery == [handlers |-> 0]

-----------------------------------------------------------------------------
(* BaseSmoother *)

\* BaseSmoother.reset(estimate = 0, variance = 0)
BaseReset(s) == [s EXCEPT !.estimate = Zero, !.variance = Zero]

-----------------------------------------------------------------------------
(* MovingAverageSmoother *)

\* Mutant: reset() without `this._window = []`.
MovingAverageResetKeepsWindow(s) ==
  [BaseReset(s) EXCEPT
     !.timeSpan = OrDefault(s.options.timeSpan, One),
     !.estimate = NULL,
     !.variance = NULL]

\* MovingAverageSmoother.reset()
MovingAverageReset(s) ==
  [BaseReset(s) EXCEPT
     !.timeSpan = OrDefault(s.options.timeSpan, One),
     !.window = <<>>,
     !.estimate = NULL,
     !.variance = NULL]

\* new MovingAverageSmoother(options)
MovingAverageNew(options) ==
  MovingAverageReset([NoSmoother EXCEPT !.options = options])

\* The values of a sequence of window entries.
Values(w) == [i \in 1..Len(w) |-> w[i].value]

\* The estimate line of add(): the sum of the window over its length.
WindowEstimate(w) == RDiv(RSum(Values(w)), RInt(Len(w)))

\* Mutant: the variance divided by size - 1 (the sample variance).
WindowVarianceSample(w, est) ==
  RDiv(RSum([i \in 1..Len(w) |-> RSq(RSub(w[i].value, est))]),
       RInt(Len(w) - 1))

\* The variance line of add(): the summed squared deviations from the
\* estimate over the window's length.
WindowVariance(w, est) ==
  RDiv(RSum([i \in 1..Len(w) |-> RSq(RSub(w[i].value, est))]),
       RInt(Len(w)))

\* Mutant: an entry exactly timeSpan old is evicted.
WindowFilterStrict(w, cutoff) ==
  SelectSeq(w, LAMBDA e : RLt(cutoff, RInt(e.timestamp)))

\* The filter line of add(): entries with timestamp >= cutoff.
WindowFilter(w, cutoff) ==
  SelectSeq(w, LAMBDA e : RLe(cutoff, RInt(e.timestamp)))

\* MovingAverageSmoother.add(value); t1 and t2 are its two Date.now() reads.
MovingAverageAdd(s, value, t1, t2) ==
  LET pushed == Append(s.window, [value |-> value, timestamp |-> t1])
      cutoff == RSub(RInt(t2), RMul(s.timeSpan, RInt(1000)))
      w == WindowFilter(pushed, cutoff)
      est == WindowEstimate(w)
  IN  [s EXCEPT !.window = w,
                !.estimate = est,
                !.variance = WindowVariance(w, est)]

-----------------------------------------------------------------------------
(* ExponentialSmoother *)

\* ExponentialSmoother.reset()
ExponentialReset(s) ==
  [BaseReset(s) EXCEPT
     !.tau = OrDefault(s.options.tau, One),
     !.estimate = NULL,
     !.variance = NULL,
     !.lastTime = NULL]

\* new ExponentialSmoother(options)
ExponentialNew(options) ==
  ExponentialReset([NoSmoother EXCEPT !.options = options])

\* Mutant: a zero elapsed time forces alpha = 1.
ExponentialAlphaOneAtZero(lastTime, t, tau) ==
  LET dt == RDiv(RSub(RInt(t), lastTime), RInt(1000))
  IN  IF dt = Zero THEN One ELSE RSub(One, ExpNeg(RDiv(dt, tau)))

\* alpha of add(): 1 - Math.exp(-dt / tau), dt in seconds.
ExponentialAlpha(lastTime, t, tau) ==
  LET dt == RDiv(RSub(RInt(t), lastTime), RInt(1000))
  IN  RSub(One, ExpNeg(RDiv(dt, tau)))

\* Mutant: the weights of the new value and of the old estimate swapped.
ExponentialAddSwapped(s, value, t) ==
  IF s.estimate = NULL
  THEN [s EXCEPT !.estimate = value, !.variance = Zero, !.lastTime = RInt(t)]
  ELSE
    LET alpha == ExponentialAlpha(s.lastTime, t, s.tau)
    IN  [s EXCEPT
           !.estimate = RAdd(RMul(RSub(One, alpha), value),
                             RMul(alpha, s.estimate)),
           !.variance = RMul(RSub(One, alpha),
                             RAdd(s.variance,
                                  RMul(alpha, RSq(RSub(value, s.estimate))))),
           !.lastTime = RInt(t)]

\* Mutant: the residual of the variance update is taken against the
\* estimate just written.
ExponentialAddResidualAfter(s, value, t) ==
  IF s.estimate = NULL
  THEN [s EXCEPT !.estimate = value, !.variance = Zero, !.lastTime = RInt(t)]
  ELSE
    LET alpha == ExponentialAlpha(s.lastTime, t, s.tau)
        estimate == RAdd(RMul(alpha, value),
                         RMul(RSub(One, alpha), s.estimate))
    IN  [s EXCEPT
           !.estimate = estimate,
           !.variance = RMul(RSub(One, alpha),
                             RAdd(s.variance,
                                  RMul(alpha, RSq(RSub(value, estimate))))),
           !.lastTime = RInt(t)]

\* ExponentialSmoother.add(value); t is its Date.now() read.
ExponentialAdd(s, value, t) ==
  IF s.estimate = NULL
  THEN [s EXCEPT !.estimate = value, !.variance = Zero, !.lastTime = RInt(t)]
  ELSE
    LET alpha == ExponentialAlpha(s.lastTime, t, s.tau)
        prevEstimate == s.estimate
        variance == IF s.variance = NULL THEN Zero ELSE s.variance
    IN  [s EXCEPT
           !.estimate = RAdd(RMul(alpha, value),
                             RMul(RSub(One, alpha), s.estimate)),
           !.variance = RMul(RSub(One, alpha),
                             RAdd(variance,
                                  RMul(alpha, RSq(RSub(value, prevEstimate))))),
           !.lastTime = RInt(t)]

-----------------------------------------------------------------------------
(* KalmanSmoother *)

SteadyStateError == "steadyState must be between 0 and 1 (exclusive)"

\* Mutant: the bounds 0 and 1 themselves are let through.
KalmanResetInclusive(s) ==
  LET b == BaseReset(s)
      K == s.options.steadyState
  IN  IF IsFiniteJS(K)
      THEN IF ~JSGe(K, Zero) \/ ~JSLe(K, One)
           THEN [obj |-> b, err |-> SteadyStateError]
           ELSE
             LET ratio == RDiv(RSub(RMul(K, K), K), RSub(K, One))
             IN  [obj |-> [b EXCEPT !.measurementVariance = RDiv(One, ratio),
                                    !.processVariance = One,
                                    !.estimate = NULL,
                                    !.variance = NULL],
                  err |-> NoError]
      ELSE [obj |-> [b EXCEPT
                       !.processVariance =
                          OrDefault(s.options.processVariance, One),
                       !.measurementVariance =
                          OrDefault(s.options.measurementVariance, RInt(4)),
                       !.estimate = NULL,
                       !.variance = NULL],
            err |-> NoError]

\* KalmanSmoother.reset(estimate = null, variance = null): the object it
\* leaves and the message of the error it throws (NoError when it returns).
KalmanReset(s) ==
  LET b == BaseReset(s)
      K == s.options.steadyState
  IN  IF IsFiniteJS(K)
      THEN IF JSLe(K, Zero) \/ JSGe(K, One)
           THEN [obj |-> b, err |-> SteadyStateError]
           ELSE
             LET ratio == RDiv(RSub(RMul(K, K), K), RSub(K, One))
             IN  [obj |-> [b EXCEPT !.measurementVariance = RDiv(One, ratio),
                                    !.processVariance = One,
                                    !.estimate = NULL,
                                    !.variance = NULL],
                  err |-> NoError]
      ELSE [obj |-> [b EXCEPT
                       !.processVariance =
                          OrDefault(s.options.processVariance, One),
                       !.measurementVariance =
                          OrDefault(s.options.measurementVariance, RInt(4)),
                       !.estimate = NULL,
                       !.variance = NULL],
            err |-> NoError]

\* new KalmanSmoother(options): the base constructor stores the options and
\* resets, then the constructor resets once more.
KalmanNew(options) ==
  LET first == KalmanReset([NoSmoother EXCEPT !.options = options])
  IN  IF first.err # NoError THEN first ELSE KalmanReset(first.obj)

\* Mutant: a non-positive argument is used as it is given.
KalmanMeasurementVarianceAsGiven(s, rt) ==
  IF rt = UNDEF THEN s.measurementVariance ELSE rt

\* The measurement variance add() works with: the argument, its default
\* when it is left out, the configured one when it is not positive.
KalmanMeasurementVariance(s, rt) ==
  LET given == IF rt = UNDEF THEN s.measurementVariance ELSE rt
  IN  IF JSLe(given, Zero) THEN s.measurementVariance ELSE given

\* Mutant: the measurement variance left out of the gain.
KalmanGainOfPrediction(predicted, measurementVariance) ==
  RDiv(predicted, predicted)

\* kalmanGain of add(), from the predicted variance.
KalmanGain(predicted, measurementVariance) ==
  RDiv(predicted, RAdd(predicted, measurementVariance))

\* Mutant: the prediction step (variance += processVariance) left out.
KalmanAddNoPredict(s, value, rt) ==
  LET measurementVariance == KalmanMeasurementVariance(s, rt)
  IN  IF s.estimate = NULL
      THEN [s EXCEPT !.estimate = value, !.variance = measurementVariance]
      ELSE
        LET kalmanGain == KalmanGain(s.variance, measurementVariance)
        IN  [s EXCEPT
               !.estimate = RAdd(s.estimate,
                                 RMul(kalmanGain, RSub(value, s.estimate))),
               !.variance = RMul(s.variance, RSub(One, kalmanGain))]

\* Mutant: the gain weighs the value, not the innovation value - estimate.
KalmanAddNoInnovation(s, value, rt) ==
  LET measurementVariance == KalmanMeasurementVariance(s, rt)
  IN  IF s.estimate = NULL
      THEN [s EXCEPT !.estimate = value, !.variance = measurementVariance]
      ELSE
        LET predicted == RAdd(s.variance, s.processVariance)
            kalmanGain == KalmanGain(predicted, measurementVariance)
        IN  [s EXCEPT
               !.estimate = RAdd(s.estimate, RMul(kalmanGain, value)),
               !.variance = RMul(predicted, RSub(One, kalmanGain))]

\* KalmanSmoother.add(value, measurementVariance)
KalmanAdd(s, value, rt) ==
  LET measurementVariance == KalmanMeasurementVariance(s, rt)
  IN  IF s.estimate = NULL
      THEN [s EXCEPT !.estimate = value, !.variance = measurementVariance]
      ELSE
        LET predicted == RAdd(s.variance, s.processVariance)
            kalmanGain == KalmanGain(predicted, measurementVariance)
        IN  [s EXCEPT
               !.estimate = RAdd(s.estimate,
                                 RMul(kalmanGain, RSub(value, s.estimate))),
               !.variance = RMul(predicted, RSub(One, kalmanGain))]

-----------------------------------------------------------------------------
(* PolarDamped *)

\* new PolarDamped(id, polar, timeConstant); the Polar starts as the unit
\* vector.
PolarDampedNew(timeConstant) ==
  [timeConstant |-> timeConstant,
   xValue |-> Zero, yValue |-> Zero, xVar |-> Zero, yVar |-> Zero,
   timestamp |-> NULL, n |-> 0,
   polar |-> [xValue |-> One, yValue |-> Zero]]

\* PolarDamped.sample(); t is its Date.now() read.
PolarDampedSample(p, t) ==
  IF p.timeConstant = Zero
  THEN [p EXCEPT !.xValue = p.polar.xValue, !.yValue = p.polar.yValue,
                 !.xVar = Zero, !.yVar = Zero,
                 !.timestamp = RInt(t), !.n = p.n + 1]
  ELSE IF p.timestamp \notin {NULL, Zero}
  THEN
    LET dt == RDiv(RSub(RInt(t), p.timestamp), RInt(1000))
    IN  IF dt = Zero
        THEN [p EXCEPT !.timestamp = RInt(t), !.n = p.n + 1]
        ELSE
          LET factor == ExpNeg(RDiv(dt, p.timeConstant))
              prevX == IF IsNumberJS(p.xValue) THEN p.xValue ELSE p.polar.xValue
              prevY == IF IsNumberJS(p.yValue) THEN p.yValue ELSE p.polar.yValue
              dx == RSub(p.polar.xValue, prevX)
              dy == RSub(p.polar.yValue, prevY)
              prevXVar == IF IsNumberJS(p.xVar) THEN p.xVar ELSE Zero
              prevYVar == IF IsNumberJS(p.yVar) THEN p.yVar ELSE Zero
          IN  [p EXCEPT
                 !.xValue = RAdd(RMul(factor, prevX),
                                 RMul(RSub(One, factor), p.polar.xValue)),
                 !.yValue = RAdd(RMul(factor, prevY),
                                 RMul(RSub(One, factor), p.polar.yValue)),
                 !.xVar = RAdd(RMul(factor, prevXVar),
                               RMul(RSub(One, factor), RMul(dx, dx))),
                 !.yVar = RAdd(RMul(factor, prevYVar),
                               RMul(RSub(One, factor), RMul(dy, dy))),
                 !.timestamp = RInt(t), !.n = p.n + 1]
  ELSE [p EXCEPT !.xValue = p.polar.xValue, !.yValue = p.polar.yValue,
                 !.xVar = Zero, !.yVar = Zero,
                 !.timestamp = RInt(t), !.n = p.n + 1]

-----------------------------------------------------------------------------
(* MessageHandler values and MessageSmoother *)

\* A string that is not a number.
STR == <<0, -3>>

\* The keys a record value of a handler may carry.
Keys == {"a", "b"}

\* value[key] of a record without that key: undefined.
NoFields == [k \in Keys |-> UNDEF]

\* JS values of a handler: typeof, the primitive (the record's ToNumber is
\* NaN) and the record's fields.
Number(x) == [type |-> "number", num |-> x, fields |-> NoFields]
NullValue == [type |-> "null", num |-> NULL, fields |-> NoFields]
Object(a, b) ==
  [type |-> "object", num |-> NaN,
   fields |-> [k \in Keys |-> IF k = "a" THEN a ELSE b]]

\* The values deltas set on the handler: null, numbers, records with the
\* keys a and b numeric, not numeric or missing.
HandlerValues ==
  {NullValue, Number(RInt(10)), Number(RInt(20)),
   Object(RInt(10), UNDEF), Object(RInt(20), RInt(10)),
   Object(UNDEF, RInt(20)), Object(RInt(10), STR)}

\* JS `typeof x === 'number'`
TypeofNumber(x) == IsRat(x) \/ x \in {NaN, INF, NEGINF}

\* JS ToNumber(x) of a primitive: null is 0, undefined and STR are NaN.
ToNumberAny(x) == IF x = STR THEN NaN ELSE ToNumber(x)

\* ExponentialSmoother.add(value) for any JS value: the first add stores the
\* value as it is; a later one computes with ToNumber(value), and NaN in
\* the value or in the estimate makes estimate and variance NaN.
ExponentialAddAny(s, value, t) ==
  IF s.estimate = NULL
  THEN [s EXCEPT !.estimate = value, !.variance = Zero, !.lastTime = RInt(t)]
  ELSE IF IsRat(ToNumberAny(value)) /\ IsRat(s.estimate)
  THEN ExponentialAdd(s, ToNumberAny(value), t)
  ELSE [s EXCEPT !.estimate = NaN, !.variance = NaN, !.lastTime = RInt(t)]

NoEstimators == [k \in Keys |-> NoSmoother]

TypeErrorNull == "Cannot read properties of null (reading 'add')"

TypeErrorForEach == "Cannot read properties of undefined (reading 'forEach')"

\* new MessageSmoother(id, handler) on a new MessageHandler: SmootherClass
\* is ExponentialSmoother, smootherOptions is {}.  smoother is "null", a
\* "scalar" smoother (scalar) or an "object" of smoothers (byKey);
\* _propertyKeys null is the empty set (it is read when _isObject only).
MessageSmootherNew ==
  [handler |-> [value |-> NullValue],
   smoother |-> "null", scalar |-> NoSmoother, byKey |-> NoEstimators,
   isObject |-> FALSE, propertyKeys |-> {}, timestamp |-> NULL, n |-> 0,
   onChange |-> FALSE]

\* Mutant: every key of the record gets a smoother, numeric or not.
MessageSmootherResetAllKeys(m) ==
  LET handlerValue == m.handler.value
      cleared == [m EXCEPT !.timestamp = NULL, !.n = 0, !.isObject = FALSE,
                           !.propertyKeys = {}, !.smoother = "null",
                           !.scalar = NoSmoother, !.byKey = NoEstimators]
  IN  IF handlerValue.type = "number"
      THEN [cleared EXCEPT !.smoother = "scalar",
                           !.scalar = ExponentialNew(NoOptions)]
      ELSE IF handlerValue.type = "object"
      THEN [cleared EXCEPT
              !.isObject = TRUE,
              !.propertyKeys = {k \in Keys : handlerValue.fields[k] # UNDEF},
              !.smoother = "object",
              !.byKey = [k \in Keys |->
                           IF handlerValue.fields[k] # UNDEF
                           THEN ExponentialNew(NoOptions) ELSE NoSmoother]]
      ELSE cleared

\* MessageSmoother.reset()
MessageSmootherReset(m) ==
  LET handlerValue == m.handler.value
      cleared == [m EXCEPT !.timestamp = NULL, !.n = 0, !.isObject = FALSE,
                           !.propertyKeys = {}, !.smoother = "null",
                           !.scalar = NoSmoother, !.byKey = NoEstimators]
      keys == {k \in Keys : TypeofNumber(handlerValue.fields[k])}
  IN  IF handlerValue.type = "number"
      THEN [cleared EXCEPT !.smoother = "scalar",
                           !.scalar = ExponentialNew(NoOptions)]
      ELSE IF handlerValue.type = "object"
      THEN [cleared EXCEPT
              !.isObject = TRUE,
              !.propertyKeys = keys,
              !.smoother = "object",
              !.byKey = [k \in Keys |->
                           IF k \in keys
                           THEN ExponentialNew(NoOptions) ELSE NoSmoother]]
      ELSE cleared

\* Mutant: onChange is called two times.
OnChangeTwice(o) == IF o.onChange THEN <<o, o>> ELSE <<>>

\* The last lines of sample(): onChange is called when it is a function;
\* the calls made, each with the object as the callback finds it.
OnChange(o) == IF o.onChange THEN <<o>> ELSE <<>>

\* sample() came to its end with the object o, with the calls of onChange
\* made (seen), or threw the error e before them.
Returned(o) == [obj |-> o, err |-> NoError, seen |-> OnChange(o)]
Thrown(o, e) == [obj |-> o, err |-> e, seen |-> <<>>]

\* The end of sample(): timestamp = now; n++.
Sampled(m, t) == [m EXCEPT !.timestamp = RInt(t), !.n = m.n + 1]

\* Mutant: sample() without `if (this.n === 0) this.reset()`.
MessageSmootherSampleNoRelearn(m, t) ==
  LET r == IF m.smoother = "null" THEN MessageSmootherReset(m) ELSE m
      handlerValue == r.handler.value
  IN  IF ~r.isObject
      THEN IF r.smoother = "null"
           THEN Thrown(r, TypeErrorNull)
           ELSE Returned(Sampled([r EXCEPT !.scalar =
                            ExponentialAddAny(r.scalar, handlerValue.num, t)],
                          t))
      ELSE IF handlerValue.type = "object"
      THEN Returned(Sampled([r EXCEPT !.byKey =
                      [k \in Keys |->
                         IF k \in r.propertyKeys
                         THEN ExponentialAddAny(r.byKey[k],
                                                handlerValue.fields[k], t)
                         ELSE r.byKey[k]]],
                    t))
      ELSE Returned(Sampled(r, t))

\* MessageSmoother.sample(); t is the clock during the call.  The object it
\* leaves and the message of the error it throws (NoError when it returns).
MessageSmootherSample(m, t) ==
  LET first == IF m.n = 0 THEN MessageSmootherReset(m) ELSE m
      r == IF first.smoother = "null" THEN MessageSmootherReset(first)
           ELSE first
      handlerValue == r.handler.value
  IN  IF ~r.isObject
      THEN IF r.smoother = "null"
           THEN Thrown(r, TypeErrorNull)
           ELSE Returned(Sampled([r EXCEPT !.scalar =
                            ExponentialAddAny(r.scalar, handlerValue.num, t)],
                          t))
      ELSE IF handlerValue.type = "object"
      THEN Returned(Sampled([r EXCEPT !.byKey =
                      [k \in Keys |->
                         IF k \in r.propertyKeys
                         THEN ExponentialAddAny(r.byKey[k],
                                                handlerValue.fields[k], t)
                         ELSE r.byKey[k]]],
                    t))
      ELSE Returned(Sampled(r, t))

\* The value and variance accessors: the shape they return ("record",
\* "scalar", or "none" for undefined), the keys of a record and the
\* numbers in it.
MessageSmootherValue(m) ==
  IF m.isObject /\ m.smoother # "null"
  THEN [shape |-> "record", keys |-> m.propertyKeys,
        num |-> UNDEF, at |-> [k \in Keys |-> m.byKey[k].estimate]]
  ELSE IF m.smoother # "null"
  THEN [shape |-> "scalar", keys |-> {}, num |-> m.scalar.estimate,
        at |-> NoFields]
  ELSE [shape |-> "none", keys |-> {}, num |-> UNDEF, at |-> NoFields]

MessageSmootherVariance(m) ==
  IF m.isObject /\ m.smoother # "null"
  THEN [shape |-> "record", keys |-> m.propertyKeys,
        num |-> UNDEF, at |-> [k \in Keys |-> m.byKey[k].variance]]
  ELSE IF m.smoother # "null"
  THEN [shape |-> "scalar", keys |-> {}, num |-> m.scalar.variance,
        at |-> NoFields]
  ELSE [shape |-> "none", keys |-> {}, num |-> UNDEF, at |-> NoFields]

-----------------------------------------------------------------------------
(* MessageHandler: subscription, idle timer and terminate *)

idlePeriod == 4000

\* The path of the handler and another path; the id of the plugin, which
\* is the source label of what the plugin sends itself
\* (MessageHandler.send), and the label of another source.
thisPath == "navigation.speedThroughWater"
otherPath == "navigation.headingTrue"
pluginId == "plugin"
otherLabel == "gps"

\* update.values of an update, and an update: isArray is FALSE for an
\* update without a values list (a meta update).
PathValue(p, value) == [path |-> p, value |-> value]
Update(label, values) == [label |-> label, isArray |-> TRUE, values |-> values]
MetaUpdate(label) == [label |-> label, isArray |-> FALSE, values |-> <<>>]

\* A delta: context is "" when the delta has none; hasUpdates is FALSE for
\* a delta without an updates list.
Delta(context, updates) ==
  [context |-> context, hasUpdates |-> TRUE, updates |-> updates]
DeltaWithoutUpdates(context) ==
  [context |-> context, hasUpdates |-> FALSE, updates |-> <<>>]

Ten == PathValue(thisPath, Number(RInt(10)))
Twenty == PathValue(thisPath, Number(RInt(20)))
Heading == PathValue(otherPath, Number(RInt(10)))

\* The deltas the application delivers.
Deltas ==
  {Delta("vessels.self", <<Update(otherLabel, <<Ten>>)>>),
   Delta("vessels.self", <<Update(otherLabel, <<Twenty>>)>>),
   Delta("vessels.self", <<Update(otherLabel, <<Twenty, Ten>>)>>),
   Delta("vessels.self", <<Update(otherLabel, <<Heading>>)>>),
   Delta("vessels.self", <<Update(pluginId, <<Twenty>>)>>),
   Delta("vessels.self", <<Update(pluginId, <<Ten>>),
                           Update(otherLabel, <<Twenty>>)>>),
   Delta("vessels.self", <<MetaUpdate(otherLabel)>>),
   Delta("", <<Update(otherLabel, <<Ten>>)>>),
   Delta("vessels.other", <<Update(otherLabel, <<Twenty>>)>>),
   DeltaWithoutUpdates("vessels.self")}

\* new MessageHandler(id, path, source) without a source.  idleTimer tells
\* whether _idleTimer holds a timer; idleDue is the time that timer fires
\* at, 0 when it is cleared or has fired.  registered is the number of
\* delta input handlers of this handler the application holds.
MessageHandlerNew ==
  [value |-> NullValue, timestamp |-> NULL, frequency |-> NULL,
   onChange |-> FALSE, onIdle |-> FALSE, subscribed |-> FALSE,
   idleTimer |-> FALSE, idleDue |-> 0, stale |-> FALSE,
   registered |-> 0]

\* _resetIdleTimer(app) at time t
ResetIdleTimer(h, t) ==
  [h EXCEPT !.stale = IF h.idleTimer THEN FALSE ELSE @,
            !.idleTimer = TRUE,
            !.idleDue = t + idlePeriod]

\* updateFrequency() at time t
UpdateFrequency(h, t) ==
  LET dt == t - h.timestamp[1]
      freq == IF dt > 0 THEN Rat(1000, dt) ELSE Zero
  IN  IF h.timestamp \notin {NULL, Zero}
      THEN [h EXCEPT
              !.frequency =
                 IF @ = NULL THEN freq
                 ELSE RAdd(RMul(RSub(One, Rat(1, 5)), @),
                           RMul(Rat(1, 5), freq)),
              !.timestamp = RInt(t)]
      ELSE [h EXCEPT !.timestamp = RInt(t)]

\* subscribe(app, pluginId, passOn, onIdle) with a path that is not empty
\* and the default passOn = true: one more delta input handler is
\* registered.
MessageHandlerSubscribe(h, onIdle, t) ==
  [ResetIdleTimer([h EXCEPT !.onIdle = onIdle], t) EXCEPT
     !.registered = @ + 1, !.subscribed = TRUE]

\* terminate(app): the call that would unregister the delta input handler
\* is commented out.
MessageHandlerTerminate(h) ==
  [h EXCEPT !.onChange = FALSE, !.onIdle = FALSE,
            !.idleDue = IF h.idleTimer THEN 0 ELSE @,
            !.idleTimer = FALSE,
            !.subscribed = FALSE]

\* The delta input handler skips the delta: it has the context of another
\* vessel.
ForeignContext(delta) == delta.context \notin {"", "vessels.self"}

\* A delta input handler that looks at the values of every update.
AcceptedFromAnySource(update) == update.isArray

\* The delta input handler of a handler without a source looks at the
\* values of the update.
Accepted(update) == update.label # pluginId /\ update.isArray

\* The loop over update.values, from the last value to values[i + 1] done:
\* the handler after the rest of it, at time t.
RECURSIVE TakeValues(_, _, _, _)
TakeValues(h, values, i, t) ==
  IF i = 0 THEN h
  ELSE TakeValues(IF values[i].path = thisPath
                  THEN UpdateFrequency([h EXCEPT !.value = values[i].value],
                                       t)
                  ELSE h,
                  values, i - 1, t)

\* delta.updates.forEach(...) with the updates before updates[i] done
RECURSIVE TakeUpdates(_, _, _, _)
TakeUpdates(h, updates, i, t) ==
  IF i > Len(updates) THEN h
  ELSE TakeUpdates(IF Accepted(updates[i])
                   THEN TakeValues(h, updates[i].values,
                                   Len(updates[i].values), t)
                   ELSE h,
                   updates, i + 1, t)

\* found, after the loop over the updates
Found(delta) ==
  \E i \in 1..Len(delta.updates) :
    /\ Accepted(delta.updates[i])
    /\ \E j \in 1..Len(delta.updates[i].values) :
         delta.updates[i].values[j].path = thisPath

\* What one call of the delta input handler does with a delta at time t:
\* obj is the handler afterwards, calls the callbacks it called, in order,
\* err the error it threw.  delta.updates.forEach throws for a delta
\* without an updates list.
MessageHandlerDelta(h, delta, t) ==
  IF ForeignContext(delta)
  THEN [obj |-> h, calls |-> <<"next">>, err |-> NoError]
  ELSE IF ~delta.hasUpdates
  THEN [obj |-> h, calls |-> <<>>, err |-> TypeErrorForEach]
  ELSE IF Found(delta)
  THEN [obj |-> ResetIdleTimer(TakeUpdates(h, delta.updates, 1, t), t),
        calls |-> IF h.onChange THEN <<"onChange", "next">>
                  ELSE <<"next">>,
        err |-> NoError]
  ELSE [obj |-> h, calls |-> <<"next">>, err |-> NoError]

\* The result of a chain of delta input handlers r followed by the result
\* of the next handler of the chain.
Chained(r, following) ==
  [obj |-> following.obj, calls |-> r.calls \o following.calls,
   err |-> following.err]

\* The application passes a delta through the delta input handlers
\* registered, the first i of them done with the result r: next(delta) of
\* a handler calls the handler registered after it, and an error ends the
\* chain.
RECURSIVE PassDelta(_, _, _, _)
PassDelta(r, delta, i, t) ==
  IF i = 0 \/ r.err # NoError THEN r
  ELSE PassDelta(Chained(r, MessageHandlerDelta(r.obj, delta, t)),
                 delta, i - 1, t)

\* The callback of the idle timer.
MessageHandlerIdle(h) == [h EXCEPT !.stale = TRUE, !.idleDue = 0]

-----------------------------------------------------------------------------
(* Polar and PolarSmoother *)

\* (x, y) the source Polar of a PolarSmoother takes.
SourceVectors ==
  {<<One, Zero>>, <<One, RInt(2)>>, <<RInt(2), Zero>>, <<RInt(2), RInt(-2)>>}

\* The class of the x and y estimators: the SmootherClass default of the
\* PolarSmoother constructor, and the SmootherClass default of
\* createSmoothedPolar.
ConstructorDefault == "ExponentialSmoother"
CreateSmoothedPolarDefault == "PolarSmoother"

NotAFunction == "this.xSmoother.add is not a function"

\* new PolarSmoother(id, polar, SmootherClass, {}) on a new Polar (the unit
\* vector).  An estimator that is itself a PolarSmoother has no add(), no
\* estimate and no variance.  magnitude and angle of the Polar are the
\* values of its two handlers, the angle as <<Math.cos, Math.sin>> of it.
PolarSmootherNew(SmootherClass) ==
  LET estimator == IF SmootherClass = "ExponentialSmoother"
                   THEN ExponentialNew(NoOptions) ELSE NoSmoother
  IN  [polar |-> [xValue |-> One, yValue |-> Zero,
                   angleRange |-> "-piToPi",
                   magnitude |-> One, angle |-> <<One, Zero>>],
       SmootherClass |-> SmootherClass,
       xSmoother |-> estimator, ySmoother |-> estimator,
       timestamp |-> NULL, n |-> 0, angleRange |-> "-piToPi",
       onChange |-> FALSE]

\* setAngleRange(range) of Polar and of PolarSmoother: the angleRange the
\* object holds afterwards.
SetAngleRange(angleRange, range) ==
  IF range \in {"0to2pi", "-piToPi"} THEN range ELSE angleRange

\* The options createSmoothedPolar is called with, after the defaults of
\* its parameter list are filled in.
CreateOptions ==
  {[SmootherClass |-> c, angleRange |-> r] :
     c \in {CreateSmoothedPolarDefault, "ExponentialSmoother"},
     r \in {"-piToPi", "0to2pi"}}

\* createSmoothedPolar(options) without subscription: the PolarSmoother it
\* returns.  The angle range goes to the Polar.
CreateSmoothedPolar(options) ==
  LET smoother == PolarSmootherNew(options.SmootherClass)
  IN  [smoother EXCEPT
         !.polar.angleRange = SetAngleRange(@, options.angleRange)]

\* Math.atan2(y, x) < 0, for y and x null or numbers.
Atan2Negative(y, x) == IsRat(ToNumber(y)) /\ RLt(ToNumber(y), Zero)

\* PolarSmoother.angle: Math.atan2(y, x) of the estimates plus
\* turns * 2 * Math.PI, as _formatAngle returns it.
PolarSmootherAngle(p) ==
  [y |-> p.ySmoother.estimate, x |-> p.xSmoother.estimate,
   turns |-> IF p.angleRange = "0to2pi"
                  /\ Atan2Negative(p.ySmoother.estimate,
                                   p.xSmoother.estimate)
             THEN 1 ELSE 0]

\* PolarSmoother.sample(); t is the clock during the call.  The object it
\* leaves and the message of the error it throws (NoError when it returns).
PolarSmootherSample(p, t) ==
  IF p.SmootherClass # "ExponentialSmoother"
  THEN Thrown(p, NotAFunction)
  ELSE Returned([p EXCEPT
                   !.xSmoother = ExponentialAdd(p.xSmoother, p.polar.xValue, t),
                   !.ySmoother = ExponentialAdd(p.ySmoother, p.polar.yValue, t),
                   !.timestamp = RInt(t), !.n = p.n + 1])

\* reset() of an estimator of a PolarSmoother; an estimator that is
\* itself a PolarSmoother holds nothing the model keeps.
EstimatorReset(SmootherClass, s) ==
  IF SmootherClass = "ExponentialSmoother" THEN ExponentialReset(s) ELSE s

\* PolarSmoother.reset(): both estimators reset, timestamp and n cleared.
PolarSmootherReset(p) ==
  [p EXCEPT !.xSmoother = EstimatorReset(p.SmootherClass, @),
            !.ySmoother = EstimatorReset(p.SmootherClass, @),
            !.timestamp = NULL, !.n = 0]

\* Values a delta carries for the magnitude path and for the angle path of
\* a Polar, UNDEF for a path it does not carry; an angle is
\* <<Math.cos, Math.sin>> of it.
NoAngle == <<UNDEF, UNDEF>>

PolarDeltas ==
  {[magnitude |-> m, angle |-> a] :
     m \in {UNDEF, One, RInt(2)},
     a \in {NoAngle, <<Zero, One>>, <<Rat(3, 5), Rat(4, 5)>>}}
  \ {[magnitude |-> UNDEF, angle |-> NoAngle]}

\* The delta has no value for the path.
WithoutPath(delta, path) ==
  IF path = "magnitude" THEN delta.magnitude = UNDEF
  ELSE delta.angle = NoAngle

\* Polar.processChanges() of the Polar of the smoother p at time t, with
\* the onChange createSmoothedPolar gave the Polar: smoother.sample().
ProcessChanges(p, t) ==
  PolarSmootherSample(
    [p EXCEPT !.polar.xValue = RMul(p.polar.magnitude, p.polar.angle[1]),
              !.polar.yValue = RMul(p.polar.magnitude, p.polar.angle[2])],
    t)

\* The delta input handler of one of the two handlers of the Polar on a
\* delta: the handler takes the value of its path and calls onChange, which
\* is processChanges; a delta without the path leaves all as it is.
PolarHandlerDelta(p, path, delta, t) ==
  IF WithoutPath(delta, path) THEN [obj |-> p, err |-> NoError]
  ELSE ProcessChanges([p EXCEPT !.polar[path] = delta[path]], t)

\* The application passes the delta through the two delta input handlers,
\* the one of the path first and then the other; the order in which it
\* calls the handlers is the application's.
PolarDelta(p, first, delta, t) ==
  LET other == IF first = "magnitude" THEN "angle" ELSE "magnitude"
      r == PolarHandlerDelta(p, first, delta, t)
  IN  IF r.err # NoError THEN r
      ELSE PolarHandlerDelta(r.obj, other, delta, t)

\* Math.cos and Math.sin of the angles rotate() is called with, as exact
\* points <<cos, sin>> of the unit circle; the angle -t has <<cos, -sin>>.
Rotations ==
  {<<Zero, One>>, <<Zero, RInt(-1)>>, <<RInt(-1), Zero>>,
   <<Rat(3, 5), Rat(4, 5)>>, <<Rat(3, 5), Rat(-4, 5)>>}

\* The operands of add() and substract(): x, y and what the operand's
\* variance accessor returns (undefined for a Polar).
Operands ==
  {[x |-> v[1], y |-> v[2], variance |-> w] :
     v \in PolarVectors, w \in {UNDEF, One}}

\* Polar.add(polar)
PolarAdd(p, polar) ==
  [p EXCEPT !.xValue = RAdd(p.xValue, polar.x),
            !.yValue = RAdd(p.yValue, polar.y)]

\* Polar.substract(polar)
PolarSubstract(p, polar) ==
  [p EXCEPT !.xValue = RSub(p.xValue, polar.x),
            !.yValue = RSub(p.yValue, polar.y)]

\* Polar.rotate(angle), with cosAngle and sinAngle of the angle.
PolarRotate(p, cosAngle, sinAngle) ==
  [p EXCEPT
     !.xValue = RSub(RMul(p.xValue, cosAngle), RMul(p.yValue, sinAngle)),
     !.yValue = RAdd(RMul(p.xValue, sinAngle), RMul(p.yValue, cosAngle))]

\* polar.variance of a Polar: the class defines no such property.
PolarVariance(p) == UNDEF

-----------------------------------------------------------------------------
(* PolarTable *)

\* One point of the twa array of a table entry.  Angles are in units of
\* Math.PI radians (1/2 is a beam reach), speeds in m/s.
Twa(twa, tbs) == [twa |-> twa, tbs |-> tbs]

\* Table entries as loadFromJieter builds them, for 2 m/s and 4 m/s of
\* true wind.
LightAir ==
  [tws |-> RInt(2), BeatAngle |-> Rat(1, 4), BeatVMG |-> One,
   RunAngle |-> Rat(3, 4), RunVMG |-> RInt(2),
   MaxSpeed |-> RInt(3), MaxSpeedAngle |-> Rat(1, 2),
   twa |-> <<Twa(Zero, Zero), Twa(Rat(1, 4), RInt(2)),
             Twa(Rat(1, 2), RInt(3)), Twa(One, One)>>]

Breeze ==
  [tws |-> RInt(4), BeatAngle |-> Rat(1, 5), BeatVMG |-> RInt(3),
   RunAngle |-> Rat(4, 5), RunVMG |-> RInt(4),
   MaxSpeed |-> RInt(6), MaxSpeedAngle |-> Rat(3, 5),
   twa |-> <<Twa(Zero, Zero), Twa(Rat(1, 2), RInt(6)), Twa(One, RInt(2))>>]

\* An entry for 6 m/s whose values are not in line with the two below.
Gale ==
  [tws |-> RInt(6), BeatAngle |-> Rat(1, 4), BeatVMG |-> RInt(2),
   RunAngle |-> Rat(9, 10), RunVMG |-> RInt(5),
   MaxSpeed |-> RInt(5), MaxSpeedAngle |-> Rat(1, 2),
   twa |-> <<Twa(Zero, Zero), Twa(Rat(1, 3), RInt(4)), Twa(One, RInt(3))>>]

\* The tables loaded: their entries are in ascending order of tws.
Tables ==
  {<<>>, <<LightAir>>, <<LightAir, Breeze>>, <<LightAir, Breeze, Gale>>}

\* Arguments of the lookups and of setPerformanceAdjustment.
LookupSpeeds == {One, RInt(2), RInt(3), RInt(5), RInt(7)}
LookupAngles == {Rat(-1, 3), Zero, Rat(1, 3), Rat(1, 2)}
Factors == {One, Rat(9, 10), Rat(1, 2), RInt(2)}

\* Math.cos of the lookup angles.
Cos(twa) ==
  CASE twa = Zero -> One
    [] twa \in {Rat(1, 3), Rat(-1, 3)} -> Rat(1, 2)
    [] twa = Rat(1, 2) -> Zero

\* new PolarTable()
PolarTableNew == [table |-> <<>>, perfAdjust |-> One]

\* The least and the greatest index of a set of indices, 0 (for the -1 of
\* the code) when it is empty.
LeastOrZero(S) ==
  IF S = {} THEN 0 ELSE CHOOSE i \in S : \A j \in S : i <= j

GreatestOrZero(S) ==
  IF S = {} THEN 0 ELSE CHOOSE i \in S : \A j \in S : j <= i

\* Mutant: the loop without its break, upperIndex the last key >= target.
UpperIndexLast(keys, target) ==
  GreatestOrZero({i \in 1..Len(keys) : RLe(target, keys[i])})

\* The loop of _findTwsInterpolation and _findTwaInterpolation over the
\* keys (tws or twa) of the array, with indices from 1: upperIndex is the
\* first key >= target, where the loop breaks, and lowerIndex the last key
\* <= target among the keys visited.
UpperIndex(keys, target) ==
  LeastOrZero({i \in 1..Len(keys) : RLe(target, keys[i])})

LowerIndex(keys, target, upperIndex) ==
  GreatestOrZero({i \in 1..(IF upperIndex = 0 THEN Len(keys)
                            ELSE upperIndex) : RLe(keys[i], target)})

Interpolation(lowerIndex, upperIndex, ratio) ==
  [found |-> TRUE, lowerIndex |-> lowerIndex, upperIndex |-> upperIndex,
   ratio |-> ratio]

\* What the two functions return after the loop; found is FALSE where the
\* code returns null.
InterpolationAt(keys, target, lowerIndex, upperIndex) ==
  IF Len(keys) = 0
  THEN [found |-> FALSE, lowerIndex |-> 0, upperIndex |-> 0, ratio |-> Zero]
  ELSE IF lowerIndex = 0 THEN Interpolation(1, 1, Zero)
  ELSE IF upperIndex = 0 THEN Interpolation(Len(keys), Len(keys), Zero)
  ELSE IF lowerIndex = upperIndex
       THEN Interpolation(lowerIndex, upperIndex, Zero)
  ELSE Interpolation(lowerIndex, upperIndex,
                     RDiv(RSub(target, keys[lowerIndex]),
                          RSub(keys[upperIndex], keys[lowerIndex])))

FindInterpolation(keys, target) ==
  InterpolationAt(keys, target,
                  LowerIndex(keys, target, UpperIndex(keys, target)),
                  UpperIndex(keys, target))

FindTwsInterpolation(table, targetTws) ==
  FindInterpolation([i \in 1..Len(table) |-> table[i].tws], targetTws)

FindTwaInterpolation(twaArray, targetTwa) ==
  FindInterpolation([i \in 1..Len(twaArray) |-> twaArray[i].twa], targetTwa)

\* lower + ratio * (upper - lower)
Interpolated(lower, upper, ratio) ==
  RAdd(lower, RMul(ratio, RSub(upper, lower)))

\* The column of the table at the interpolation i, null without one.
ColumnAt(table, column, i) ==
  IF ~i.found THEN NULL
  ELSE Interpolated(table[i.lowerIndex][column],
                    table[i.upperIndex][column], i.ratio)

\* getBeatAngle, getRunAngle and getMaxSpeedAngle: the column interpolated
\* at tws.
ByTws(t, tws, column) ==
  ColumnAt(t.table, column, FindTwsInterpolation(t.table, tws))

\* (...) * this.perfAdjust after the return of null
Adjusted(v, perfAdjust) == IF v = NULL THEN NULL ELSE RMul(v, perfAdjust)

\* getBeatVMG, getRunVMG and getMaxSpeed
ByTwsAdjusted(t, tws, column) ==
  Adjusted(ByTws(t, tws, column), t.perfAdjust)

\* The speed of a table entry at the interpolation i of its twa array.
TbsAt(twaArray, i) ==
  IF ~i.found THEN NULL
  ELSE Interpolated(twaArray[i.lowerIndex].tbs, twaArray[i.upperIndex].tbs,
                    i.ratio)

EntrySpeed(entry, normalizedTwa) ==
  TbsAt(entry.twa, FindTwaInterpolation(entry.twa, normalizedTwa))

\* Mutant: the boat speed without the performance adjustment.
BoatSpeedUnadjusted(lowerBoatSpeed, upperBoatSpeed, ratio, perfAdjust) ==
  IF lowerBoatSpeed = NULL \/ upperBoatSpeed = NULL THEN NULL
  ELSE Interpolated(lowerBoatSpeed, upperBoatSpeed, ratio)

\* The end of getBoatSpeed: null when an entry has no twa data.
BoatSpeed(lowerBoatSpeed, upperBoatSpeed, ratio, perfAdjust) ==
  IF lowerBoatSpeed = NULL \/ upperBoatSpeed = NULL THEN NULL
  ELSE RMul(Interpolated(lowerBoatSpeed, upperBoatSpeed, ratio), perfAdjust)

BoatSpeedAt(t, normalizedTwa, i) ==
  IF ~i.found THEN NULL
  ELSE BoatSpeed(EntrySpeed(t.table[i.lowerIndex], normalizedTwa),
                 EntrySpeed(t.table[i.upperIndex], normalizedTwa),
                 i.ratio, t.perfAdjust)

\* getBoatSpeed(tws, twa)
GetBoatSpeed(t, tws, twa) ==
  BoatSpeedAt(t, IF RLt(twa, Zero) THEN RNeg(twa) ELSE twa,
              FindTwsInterpolation(t.table, tws))

\* Mutant: getVMG without the test for null.
VMGOfNumber(boatSpeed, twa) == RMul(ToNumber(boatSpeed), Cos(twa))

\* The end of getVMG
VMG(boatSpeed, twa) ==
  IF boatSpeed = NULL THEN NULL ELSE RMul(boatSpeed, Cos(twa))

\* getVMG(tws, twa)
GetVMG(t, tws, twa) == VMG(GetBoatSpeed(t, tws, twa), twa)

AngleLookups ==
  [getBeatAngle |-> "BeatAngle", getRunAngle |-> "RunAngle",
   getMaxSpeedAngle |-> "MaxSpeedAngle"]

SpeedLookups ==
  [getBeatVMG |-> "BeatVMG", getRunVMG |-> "RunVMG",
   getMaxSpeed |-> "MaxSpeed"]

Lookups ==
  DOMAIN AngleLookups \cup DOMAIN SpeedLookups \cup {"getBoatSpeed", "getVMG"}

\* What the lookup op returns for the table t; twa is read by getBoatSpeed
\* and getVMG only.
PolarTableLookup(t, op, tws, twa) ==
  IF op \in DOMAIN AngleLookups THEN ByTws(t, tws, AngleLookups[op])
  ELSE IF op \in DOMAIN SpeedLookups
       THEN ByTwsAdjusted(t, tws, SpeedLookups[op])
  ELSE IF op = "getBoatSpeed" THEN GetBoatSpeed(t, tws, twa)
  ELSE GetVMG(t, tws, twa)

-----------------------------------------------------------------------------
(* Actions *)

\* A constructor that threw returned no object.
Exists == ~(last.op = "new" /\ err # NoError)

Smoothers == {"MovingAverage", "Exponential", "Kalman"}

Op(op, pre, value, rt, time) ==
  [op |-> op, pre |-> pre, value |-> value, rt |-> rt, time |-> time]

\* Time passes between two calls.
Tick ==
  /\ Exists
  /\ cls \in {"MovingAverage", "Exponential", "PolarDamped",
             "MessageSmoother", "PolarSmoother"}
  /\ \E d \in ClockSteps :
       /\ now + d <= LastTick
       /\ now' = now + d
  /\ UNCHANGED <<cls, sm, pd, err, hist, last, ms, pl, pt, delivery>>

AddMovingAverage ==
  /\ Exists
  /\ cls = "MovingAverage"
  /\ Len(hist) < MaxAdds
  /\ \E value \in MovingAverageValues, gap \in ReadGaps :
       /\ now + gap <= LastTick
       /\ sm' = MovingAverageAdd(sm, value, now, now + gap)
       /\ now' = now + gap
       /\ hist' = Append(hist, [value |-> value, timestamp |-> now])
       /\ last' = Op("add", sm, value, UNDEF, now + gap)
  /\ UNCHANGED <<cls, pd, err, ms, pl, pt, delivery>>

AddExponential ==
  /\ Exists
  /\ cls = "Exponential"
  /\ Len(hist) < MaxAdds
  /\ \E value \in ExponentialValues :
       /\ sm' = ExponentialAdd(sm, value, now)
       /\ hist' = Append(hist, [value |-> value, timestamp |-> now])
       /\ last' = Op("add", sm, value, UNDEF, now)
  /\ UNCHANGED <<cls, now, pd, err, ms, pl, pt, delivery>>

AddKalman ==
  /\ Exists
  /\ cls = "Kalman"
  /\ Len(hist) < MaxAdds
  /\ \E value \in KalmanValues, rt \in KalmanSampleVariances :
       /\ sm' = KalmanAdd(sm, value, rt)
       /\ hist' = Append(hist, [value |-> value, timestamp |-> now, rt |-> rt])
       /\ last' = Op("add", sm, value, rt, now)
  /\ UNCHANGED <<cls, now, pd, err, ms, pl, pt, delivery>>

\* smoother.reset()
Reset ==
  /\ Exists
  /\ cls \in Smoothers
  /\ LET r == CASE cls = "MovingAverage" ->
                     [obj |-> MovingAverageReset(sm), err |-> NoError]
                [] cls = "Exponential" ->
                     [obj |-> ExponentialReset(sm), err |-> NoError]
                [] cls = "Kalman" -> KalmanReset(sm)
     IN  /\ sm' = r.obj
         /\ err' = r.err
  /\ hist' = <<>>
  /\ last' = Op("reset", sm, UNDEF, UNDEF, now)
  /\ UNCHANGED <<cls, now, pd, ms, pl, pt, delivery>>

\* The options assigned to an existing smoother of class c: none, one that
\* is set and, for KalmanSmoother, a gain in and one outside (0, 1).
AssignedOptions(c) ==
  CASE c = "MovingAverage" ->
         {NoOptions, [NoOptions EXCEPT !.timeSpan = Rat(1, 4)]}
    [] c = "Exponential" -> {NoOptions, [NoOptions EXCEPT !.tau = RInt(2)]}
    [] c = "Kalman" ->
         {NoOptions,
          [NoOptions EXCEPT !.processVariance = One,
                            !.measurementVariance = One],
          [NoOptions EXCEPT !.steadyState = Rat(1, 2)],
          [NoOptions EXCEPT !.steadyState = RInt(2)]}

\* this.reset() as class c overrides it: the object it leaves and the
\* message of the error it throws (NoError when it returns).
ResetOf(c, s) ==
  CASE c = "MovingAverage" -> [obj |-> MovingAverageReset(s), err |-> NoError]
    [] c = "Exponential" -> [obj |-> ExponentialReset(s), err |-> NoError]
    [] c = "Kalman" -> KalmanReset(s)

\* new SmootherClass(options)
NewOf(c, options) ==
  CASE c = "MovingAverage" ->
         [obj |-> MovingAverageNew(options), err |-> NoError]
    [] c = "Exponential" -> [obj |-> ExponentialNew(options), err |-> NoError]
    [] c = "Kalman" -> KalmanNew(options)

\* set options(opts): the options are stored, then the object resets.
OptionsSetter(c, s, opts) == ResetOf(c, [s EXCEPT !.options = opts])

\* smoother.options = opts
SetOptions ==
  /\ Exists
  /\ cls \in Smoothers
  /\ \E opts \in AssignedOptions(cls) :
       LET r == OptionsSetter(cls, sm, opts)
       IN  /\ sm' = r.obj
           /\ err' = r.err
  /\ hist' = <<>>
  /\ last' = Op("options", sm, UNDEF, UNDEF, now)
  /\ UNCHANGED <<cls, now, pd, ms, pl, pt, delivery>>

\* The source Polar of the PolarDamped gets a new vector value.
PolarChange ==
  /\ cls = "PolarDamped"
  /\ \E v \in PolarVectors :
       /\ v # <<pd.polar.xValue, pd.polar.yValue>>
       /\ pd' = [pd EXCEPT !.polar = [xValue |-> v[1], yValue |-> v[2]]]
  /\ last' = Op("change", pd, UNDEF, UNDEF, now)
  /\ UNCHANGED <<cls, now, sm, err, hist, ms, pl, pt, delivery>>

SamplePolarDamped ==
  /\ cls = "PolarDamped"
  /\ pd.n < MaxAdds
  /\ pd' = PolarDampedSample(pd, now)
  /\ last' = Op("sample", pd, UNDEF, UNDEF, now)
  /\ err' = NoError
  /\ UNCHANGED <<cls, now, sm, hist, ms, pl, pt, delivery>>

InitMovingAverage ==
  /\ cls = "MovingAverage"
  /\ \E options \in MovingAverageOptions : sm = MovingAverageNew(options)
  /\ pd = NoPolarDamped
  /\ err = NoError

InitExponential ==
  /\ cls = "Exponential"
  /\ \E options \in ExponentialOptions : sm = ExponentialNew(options)
  /\ pd = NoPolarDamped
  /\ err = NoError

InitKalman ==
  /\ cls = "Kalman"
  /\ \E options \in KalmanOptions :
       LET r == KalmanNew(options)
       IN  sm = r.obj /\ err = r.err
  /\ pd = NoPolarDamped

InitPolarDamped ==
  /\ cls = "PolarDamped"
  /\ \E timeConstant \in TimeConstants : pd = PolarDampedNew(timeConstant)
  /\ sm = NoSmoother
  /\ err = NoError

\* The state after construction of the object under test.
Init ==
  /\ now \in StartTimes
  /\ hist = <<>>
  /\ last = Op("new", NoSmoother, UNDEF, UNDEF, now)
  /\ ms = NoMessageSmoother
  /\ pl = NoPolar
  /\ pt = NoTable
  /\ delivery = NoDelivery
  /\ \/ InitMovingAverage
     \/ InitExponential
     \/ InitKalman
     \/ InitPolarDamped

Next ==
  \/ Tick
  \/ AddMovingAverage
  \/ AddExponential
  \/ AddKalman
  \/ Reset
  \/ PolarChange
  \/ SamplePolarDamped

Spec == Init /\ [][Next]_vars

\* A smoother constructed without options whose options are assigned later.
InitOptions ==
  /\ Init
  /\ cls \in Smoothers
  /\ sm.options = NoOptions

NextOptions ==
  \/ Tick
  \/ AddMovingAverage
  \/ AddExponential
  \/ AddKalman
  \/ Reset
  \/ SetOptions

SpecOptions == InitOptions /\ [][NextOptions]_vars

\* A delta sets handler.value (or leaves it) and sample() is called, by the
\* handler's onChange or by the owner.
SampleMessage ==
  /\ cls = "MessageSmoother"
  /\ ms.n < MaxAdds
  /\ \E value \in HandlerValues :
       LET pre == [ms EXCEPT !.handler.value = value]
           r == MessageSmootherSample(pre, now)
       IN  /\ ms' = r.obj
           /\ err' = r.err
           /\ hist' = IF r.err = NoError THEN Append(hist, value) ELSE hist
           /\ last' = Op("sample", pre, value, r.seen, now)
  /\ UNCHANGED <<cls, now, sm, pd, pl, pt, delivery>>

\* messageSmoother.reset()
ResetMessage ==
  /\ cls = "MessageSmoother"
  /\ ms' = MessageSmootherReset(ms)
  /\ err' = NoError
  /\ hist' = <<>>
  /\ last' = Op("reset", ms, UNDEF, UNDEF, now)
  /\ UNCHANGED <<cls, now, sm, pd, pl, pt, delivery>>

\* createSmoothedHandler({id, path}): a MessageSmoother on a new handler.
InitMessage ==
  /\ cls = "MessageSmoother"
  /\ now \in StartTimes
  /\ ms = MessageSmootherNew
  /\ sm = NoSmoother
  /\ pd = NoPolarDamped
  /\ pl = NoPolar
  /\ pt = NoTable
  /\ delivery = NoDelivery
  /\ err = NoError
  /\ hist = <<>>
  /\ last = Op("new", NoMessageSmoother, UNDEF, UNDEF, now)

NextMessage ==
  \/ Tick
  \/ SampleMessage
  \/ ResetMessage

SpecMessage == InitMessage /\ [][NextMessage]_vars

\* The source Polar takes a value (or keeps it) and sample() is called, by
\* the Polar's onChange or by the owner.
SamplePolarSmoother ==
  /\ cls = "PolarSmoother"
  /\ pl.n < MaxAdds
  /\ \E v \in SourceVectors :
       LET pre == [pl EXCEPT !.polar.xValue = v[1], !.polar.yValue = v[2]]
           r == PolarSmootherSample(pre, now)
       IN  /\ pl' = r.obj
           /\ err' = r.err
           /\ hist' = IF r.err = NoError
                      THEN Append(hist, [x |-> v[1], y |-> v[2],
                                         timestamp |-> now])
                      ELSE hist
           /\ last' = Op("sample", pre, UNDEF, r.seen, now)
  /\ UNCHANGED <<cls, now, sm, pd, ms, pt, delivery>>

\* new PolarSmoother(id, polar), or createSmoothedPolar({...}) without a
\* SmootherClass.
InitPolarSmoother ==
  /\ cls = "PolarSmoother"
  /\ now \in StartTimes
  /\ \/ /\ pl = PolarSmootherNew(ConstructorDefault)
        /\ last = Op("new", NoPolar, UNDEF, UNDEF, now)
     \/ \E options \in CreateOptions :
          /\ pl = CreateSmoothedPolar(options)
          /\ last = Op("createSmoothedPolar", NoPolar, UNDEF, UNDEF, now)
  /\ sm = NoSmoother
  /\ pd = NoPolarDamped
  /\ ms = NoMessageSmoother
  /\ pt = NoTable
  /\ delivery = NoDelivery
  /\ err = NoError
  /\ hist = <<>>

NextPolarSmoother ==
  \/ Tick
  \/ SamplePolarSmoother

SpecPolarSmoother == InitPolarSmoother /\ [][NextPolarSmoother]_vars

\* polarSmoother.reset()
ResetPolarSmoother ==
  /\ cls = "PolarSmoother"
  /\ pl' = PolarSmootherReset(pl)
  /\ err' = NoError
  /\ hist' = <<>>
  /\ last' = Op("reset", pl, UNDEF, UNDEF, now)
  /\ UNCHANGED <<cls, now, sm, pd, ms, pt, delivery>>

\* The owner assigns a function to onChange of the MessageSmoother or the
\* PolarSmoother it has constructed.
AssignOnChange ==
  /\ last.op \in {"new", "createSmoothedPolar"}
  /\ \/ /\ cls = "MessageSmoother"
        /\ ~ms.onChange
        /\ ms' = [ms EXCEPT !.onChange = TRUE]
        /\ pl' = pl
     \/ /\ cls = "PolarSmoother"
        /\ ~pl.onChange
        /\ pl' = [pl EXCEPT !.onChange = TRUE]
        /\ ms' = ms
  /\ UNCHANGED <<cls, now, sm, pd, err, hist, last, pt, delivery>>

\* A MessageSmoother or a PolarSmoother, sampled and reset while the clock
\* stands still.
InitSample == InitMessage \/ InitPolarSmoother

NextSample ==
  \/ AssignOnChange
  \/ SampleMessage
  \/ ResetMessage
  \/ SamplePolarSmoother
  \/ ResetPolarSmoother

SpecSample == InitSample /\ [][NextSample]_vars

\* polar.add(p), polar.substract(p), polar.rotate(t): hist holds the calls
\* made and the Polar before each.
AddPolar ==
  /\ cls = "Polar"
  /\ Len(hist) < MaxAdds
  /\ \E polar \in Operands :
       /\ pl' = PolarAdd(pl, polar)
       /\ hist' = Append(hist, [op |-> "add", arg |-> polar, pre |-> pl])
  /\ UNCHANGED <<cls, now, sm, pd, ms, err, last, pt, delivery>>

SubstractPolar ==
  /\ cls = "Polar"
  /\ Len(hist) < MaxAdds
  /\ \E polar \in Operands :
       /\ pl' = PolarSubstract(pl, polar)
       /\ hist' = Append(hist, [op |-> "substract", arg |-> polar,
                                pre |-> pl])
  /\ UNCHANGED <<cls, now, sm, pd, ms, err, last, pt, delivery>>

RotatePolar ==
  /\ cls = "Polar"
  /\ Len(hist) < MaxAdds
  /\ \E angle \in Rotations :
       /\ pl' = PolarRotate(pl, angle[1], angle[2])
       /\ hist' = Append(hist, [op |-> "rotate", arg |-> angle, pre |-> pl])
  /\ UNCHANGED <<cls, now, sm, pd, ms, err, last, pt, delivery>>

\* A Polar holding a vector value.
InitPolar ==
  /\ cls = "Polar"
  /\ now \in StartTimes
  /\ \E v \in PolarVectors : pl = [xValue |-> v[1], yValue |-> v[2]]
  /\ sm = NoSmoother
  /\ pd = NoPolarDamped
  /\ ms = NoMessageSmoother
  /\ pt = NoTable
  /\ delivery = NoDelivery
  /\ err = NoError
  /\ hist = <<>>
  /\ last = Op("new", NoPolar, UNDEF, UNDEF, now)

NextPolar ==
  \/ AddPolar
  \/ SubstractPolar
  \/ RotatePolar

SpecPolar == InitPolar /\ [][NextPolar]_vars

\* Time passes for a MessageHandler; a timer that is due fires before the
\* clock moves on.
LastIdleTick == 1000 + (idlePeriod \div 4) * MaxTicks

Wait ==
  /\ cls = "MessageHandler"
  /\ \E d \in {idlePeriod \div 2, idlePeriod} :
       /\ now + d <= LastIdleTick
       /\ ms.idleDue = 0 \/ now + d <= ms.idleDue
       /\ now' = now + d
  /\ UNCHANGED <<cls, sm, pd, err, hist, last, ms, pl, pt, delivery>>

\* handler.subscribe(app, pluginId, passOn, onIdle) with an onIdle callback
\* on a handler that is new or terminated: hist holds the events since
\* construction, deltas and callbacks called.
SubscribeHandler ==
  /\ cls = "MessageHandler"
  /\ ms.registered < MaxSubscribes
  /\ ~ms.subscribed
  /\ ms' = MessageHandlerSubscribe(ms, TRUE, now)
  /\ last' = Op("subscribe", ms, RInt(Len(hist)), UNDEF, now)
  /\ UNCHANGED <<cls, now, sm, pd, err, hist, pl, pt, delivery>>

\* No delta input handler has run yet.
NotPassed(h) == [obj |-> h, calls |-> <<>>, err |-> NoError]

\* The number of the events in hist that are the event given.
Events(event) == Cardinality({i \in 1..Len(hist) : hist[i] = event})

\* The application delivers a delta to the delta input handlers registered;
\* at most MaxAdds deltas are delivered and at most MaxAdds calls of delta
\* input handlers made.
DeliverDelta ==
  /\ cls = "MessageHandler"
  /\ ms.registered > 0
  /\ Events("delta") < MaxAdds
  /\ Events("next") + ms.registered <= MaxAdds
  /\ \E delta \in Deltas :
       /\ ms' = PassDelta(NotPassed(ms), delta, ms.registered, now).obj
       /\ err' = PassDelta(NotPassed(ms), delta, ms.registered, now).err
       /\ hist' = Append(hist, "delta")
                  \o PassDelta(NotPassed(ms), delta, ms.registered, now).calls
       /\ delivery' = [handlers |-> ms.registered, delta |-> delta]
  /\ UNCHANGED <<cls, now, sm, pd, last, pl, pt>>

\* The idle timer fires.
IdleTimeout ==
  /\ cls = "MessageHandler"
  /\ ms.idleDue # 0 /\ now >= ms.idleDue
  /\ ms' = MessageHandlerIdle(ms)
  /\ hist' = IF ms.onIdle THEN Append(hist, "onIdle") ELSE hist
  /\ UNCHANGED <<cls, now, sm, pd, err, last, pl, pt, delivery>>

\* handler.terminate(app); last.value is the number of events before it.
TerminateHandler ==
  /\ cls = "MessageHandler"
  /\ last.op = "subscribe"
  /\ ms' = MessageHandlerTerminate(ms)
  /\ last' = Op("terminate", ms, RInt(Len(hist)), UNDEF, now)
  /\ UNCHANGED <<cls, now, sm, pd, err, hist, pl, pt, delivery>>

\* A new handler with an onChange callback assigned.
InitHandler ==
  /\ cls = "MessageHandler"
  /\ now \in StartTimes
  /\ ms = [MessageHandlerNew EXCEPT !.onChange = TRUE]
  /\ sm = NoSmoother
  /\ pd = NoPolarDamped
  /\ pl = NoPolar
  /\ pt = NoTable
  /\ delivery = NoDelivery
  /\ err = NoError
  /\ hist = <<>>
  /\ last = Op("new", NoMessageSmoother, Zero, UNDEF, now)

NextHandler ==
  \/ Wait
  \/ SubscribeHandler
  \/ DeliverDelta
  \/ IdleTimeout
  \/ TerminateHandler

SpecHandler == InitHandler /\ [][NextHandler]_vars

\* polarTable.setPerformanceAdjustment(value)
SetPerformanceAdjustment ==
  /\ cls = "PolarTable"
  /\ \E value \in Factors : pt' = [pt EXCEPT !.perfAdjust = value]
  /\ last' = Op("setPerformanceAdjustment", pt, UNDEF, UNDEF, now)
  /\ UNCHANGED <<cls, now, sm, pd, err, hist, ms, pl, delivery>>

\* polarTable.loadFromJieter(csv): the table built from csv replaces the
\* table held.
LoadFromJieter ==
  /\ cls = "PolarTable"
  /\ \E table \in Tables \ {<<>>} : pt' = [pt EXCEPT !.table = table]
  /\ last' = Op("loadFromJieter", pt, UNDEF, UNDEF, now)
  /\ UNCHANGED <<cls, now, sm, pd, err, hist, ms, pl, delivery>>

\* One of the lookups is called; last holds its arguments (value) and what
\* it returned (rt).
Lookup ==
  /\ cls = "PolarTable"
  /\ \E op \in Lookups, tws \in LookupSpeeds, twa \in LookupAngles :
       last' = Op(op, pt, <<tws, twa>>, PolarTableLookup(pt, op, tws, twa),
                  now)
  /\ UNCHANGED <<cls, now, sm, pd, err, hist, ms, pl, pt, delivery>>

InitTable ==
  /\ cls = "PolarTable"
  /\ now \in StartTimes
  /\ pt = PolarTableNew
  /\ delivery = NoDelivery
  /\ sm = NoSmoother
  /\ pd = NoPolarDamped
  /\ ms = NoMessageSmoother
  /\ pl = NoPolar
  /\ err = NoError
  /\ hist = <<>>
  /\ last = Op("new", NoTable, UNDEF, UNDEF, now)

NextTable ==
  \/ SetPerformanceAdjustment
  \/ LoadFromJieter
  \/ Lookup

SpecTable == InitTable /\ [][NextTable]_vars

\* Time passes between two calls on a KalmanSmoother.
Elapse ==
  /\ cls = "Kalman"
  /\ \E d \in ClockSteps :
       /\ now + d <= LastTick
       /\ now' = now + d
  /\ UNCHANGED <<cls, sm, pd, err, hist, last, ms, pl, pt, delivery>>

\* Mutant: the process variance grows with the seconds since the last
\* sample.
AddKalmanElapsed ==
  /\ cls = "Kalman"
  /\ Len(hist) < MaxAdds
  /\ \E value \in KalmanValues, rt \in {UNDEF, One} :
       LET dt == IF hist = <<>> THEN One
                 ELSE Rat(now - hist[Len(hist)].timestamp, 1000)
           grown == [sm EXCEPT !.processVariance = RMul(@, dt)]
       IN  /\ sm' = [KalmanAdd(grown, value, rt) EXCEPT
                       !.processVariance = sm.processVariance]
           /\ hist' = Append(hist, [value |-> value, timestamp |-> now,
                                    rt |-> rt])
           /\ last' = Op("add", sm, value, rt, now)
  /\ UNCHANGED <<cls, now, pd, err, ms, pl, pt, delivery>>

\* smoother.add(value) and smoother.add(value, 1) at the time now
AddKalmanTimed ==
  /\ cls = "Kalman"
  /\ Len(hist) < MaxAdds
  /\ \E value \in KalmanValues, rt \in {UNDEF, One} :
       /\ sm' = KalmanAdd(sm, value, rt)
       /\ hist' = Append(hist, [value |-> value, timestamp |-> now,
                                rt |-> rt])
       /\ last' = Op("add", sm, value, rt, now)
  /\ UNCHANGED <<cls, now, pd, err, ms, pl, pt, delivery>>

\* new KalmanSmoother({}) and new KalmanSmoother({steadyState: 0.5})
InitKalmanTimed ==
  /\ Init
  /\ cls = "Kalman"
  /\ sm.options \in {NoOptions, [NoOptions EXCEPT !.steadyState = Rat(1, 2)]}

NextKalmanTimed == Elapse \/ AddKalmanTimed

SpecKalmanTimed == InitKalmanTimed /\ [][NextKalmanTimed]_vars

\* The sample the smoother took between p and q, as (x, y) of the Polar.
SamplesTaken(p, q, t) ==
  IF q.n > p.n
  THEN <<[x |-> q.polar.xValue, y |-> q.polar.yValue, timestamp |-> t]>>
  ELSE <<>>

\* A delta for the paths of a subscribed Polar arrives.  hist holds the
\* samples the smoother took, as (x, y) of the Polar at each.
DeliverPolarDelta ==
  /\ cls = "PolarSmoother"
  /\ \E delta \in PolarDeltas, first \in {"magnitude", "angle"} :
       /\ pl.n + Cardinality({path \in {"magnitude", "angle"} :
                                ~WithoutPath(delta, path)}) <= MaxAdds
       /\ pl' = PolarDelta(pl, first, delta, now).obj
       /\ err' = PolarDelta(pl, first, delta, now).err
       /\ hist' = hist
                  \o SamplesTaken(pl, PolarHandlerDelta(pl, first, delta, now).obj,
                                  now)
                  \o SamplesTaken(PolarHandlerDelta(pl, first, delta, now).obj,
                                  PolarDelta(pl, first, delta, now).obj, now)
       /\ last' = Op("delta", pl, delta, UNDEF, now)
  /\ UNCHANGED <<cls, now, sm, pd, ms, pt, delivery>>

\* createSmoothedPolar({subscribe: true, SmootherClass: ExponentialSmoother})
InitPolarDelta ==
  /\ cls = "PolarSmoother"
  /\ now \in StartTimes
  /\ pl = CreateSmoothedPolar([SmootherClass |-> "ExponentialSmoother",
                               angleRange |-> "-piToPi"])
  /\ last = Op("createSmoothedPolar", NoPolar, UNDEF, UNDEF, now)
  /\ sm = NoSmoother
  /\ pd = NoPolarDamped
  /\ ms = NoMessageSmoother
  /\ pt = NoTable
  /\ delivery = NoDelivery
  /\ err = NoError
  /\ hist = <<>>

NextPolarDelta == Tick \/ DeliverPolarDelta

SpecPolarDelta == InitPolarDelta /\ [][NextPolarDelta]_vars

-----------------------------------------------------------------------------
(* Properties *)

AfterAdd(c) == cls = c /\ last.op = "add" /\ err = NoError

HistValues == Values(hist)

\* Mean and population variance of a non-empty sequence of rationals, the
\* variance as the mean of the squares less the square of the mean.
Mean(vs) == RDiv(RSum(vs), RInt(Len(vs)))
PopulationVariance(vs) ==
  RSub(RDiv(RSum([i \in 1..Len(vs) |-> RSq(vs[i])]), RInt(Len(vs))),
       RSq(Mean(vs)))

\* The samples added since the last reset that are not older than timeSpan
\* seconds at time t (ms).
Retained(t) ==
  SelectSeq(hist,
            LAMBDA e : RLe(RSub(RInt(t), RMul(sm.timeSpan, RInt(1000))),
                           RInt(e.timestamp)))

\* C1: after every MovingAverageSmoother.add() the window holds exactly the
\* samples added since the last reset whose timestamp is >= the time of that
\* add (the clock read that sets the cutoff) less timeSpan seconds, and the
\* estimate is their exact mean; this stays so while time passes, until the
\* next add(): a sample that has grown older than timeSpan in the meantime
\* is still counted.
C1_WindowAndMean ==
  AfterAdd("MovingAverage") =>
    /\ sm.window = Retained(last.time)
    /\ Len(sm.window) > 0 =>
         sm.estimate = Mean(Values(Retained(last.time)))

\* C1 witness: an add() has evicted a sample, and a sample that is by now
\* older than timeSpan is still in the window and in the estimate.
C1_Witness ==
  /\ AfterAdd("MovingAverage")
  /\ 0 < Len(sm.window) /\ Len(sm.window) < Len(hist)
  /\ Len(Retained(now)) < Len(sm.window)
  /\ sm.estimate = Mean(Values(sm.window))

\* C9: after every MovingAverageSmoother.add() the variance is the
\* population variance of the retained samples (divided by the size of the
\* window, not by size - 1); timeSpan 1 and the samples 1, 2, 3 with no
\* elapsed time give estimate 2 and variance 2/3.
C9_PopulationVariance ==
  AfterAdd("MovingAverage") =>
    /\ Len(sm.window) > 0 =>
         sm.variance = PopulationVariance(Values(sm.window))
    /\ ( /\ sm.timeSpan = One
         /\ HistValues = <<RInt(1), RInt(2), RInt(3)>>
         /\ \A i \in 1..3 : hist[i].timestamp = last.time )
       => sm.estimate = RInt(2) /\ sm.variance = Rat(2, 3)

\* C9 witness: the samples 1, 2, 3 have been added with no elapsed time.
C9_Witness ==
  /\ AfterAdd("MovingAverage")
  /\ sm.timeSpan = One
  /\ HistValues = <<RInt(1), RInt(2), RInt(3)>>
  /\ \A i \in 1..3 : hist[i].timestamp = last.time
  /\ sm.variance = Rat(2, 3)

RAbs(a) == <<Abs(a[1]), a[2]>>

\* The clock values of the model.
GridTimes == {1000 + 500 * k : k \in 0..MaxTicks}

\* C2: the first ExponentialSmoother.add(v0) after construction or reset
\* sets estimate = v0, variance = 0 and lastTime = now; a later add(v1), dt
\* seconds after it, sets estimate = a*v1 + (1-a)*v0 with
\* a = 1 - e^(-dt/tau), where 0 <= a < 1, and a shorter dt would have given
\* a smaller a and an estimate no closer to v1.
C2_ExponentialUpdate ==
  AfterAdd("Exponential") =>
    IF last.pre.estimate = NULL
    THEN /\ sm.estimate = last.value
         /\ sm.variance = Zero
         /\ sm.lastTime = RInt(last.time)
    ELSE
      LET v1 == last.value
          v0 == last.pre.estimate
          A(t) == RSub(One, ExpNeg(RDiv(RDiv(RSub(RInt(t), last.pre.lastTime),
                                             RInt(1000)),
                                        sm.tau)))
          E(t) == RAdd(RMul(A(t), v1), RMul(RSub(One, A(t)), v0))
          a == A(last.time)
      IN  /\ Len(hist) = 2 => v0 = hist[1].value
          /\ sm.estimate = E(last.time)
          /\ RLe(Zero, a) /\ RLt(a, One)
          /\ \A t \in GridTimes :
               (RLe(last.pre.lastTime, RInt(t)) /\ t < last.time) =>
                 /\ RLt(A(t), a)
                 /\ RLe(RAbs(RSub(v1, sm.estimate)), RAbs(RSub(v1, E(t))))

\* C2 witness: a second add, some time after the first, of another value.
C2_Witness ==
  /\ AfterAdd("Exponential")
  /\ Len(hist) = 2
  /\ hist[1].value # hist[2].value
  /\ hist[1].timestamp + 1000 = hist[2].timestamp
  /\ sm.tau = One
  /\ sm.estimate = RAdd(RMul(Rat(12, 19), hist[2].value),
                        RMul(Rat(7, 19), hist[1].value))

\* The measurement variance in force in the last add().
InForce(rt, configured) ==
  IF rt = UNDEF \/ RLe(rt, Zero) THEN configured ELSE rt

\* C3: the first KalmanSmoother.add(value) after construction or reset sets
\* estimate = value and variance = the measurement variance in force; every
\* later add(value) computes p = variance + Q, gain = p / (p + R_t),
\* estimate' = estimate + gain * (value - estimate), variance' = p * (1 - gain).
\* With Q = 1 and R = 4, add(10) then add(12) gives 100/9 and 20/9.
C3_KalmanUpdate ==
  AfterAdd("Kalman") =>
    LET Rt == InForce(last.rt, last.pre.measurementVariance)
        p == RAdd(last.pre.variance, last.pre.processVariance)
        gain == RDiv(p, RAdd(p, Rt))
    IN  /\ IF last.pre.estimate = NULL
           THEN sm.estimate = last.value /\ sm.variance = Rt
           ELSE /\ sm.estimate =
                     RAdd(last.pre.estimate,
                          RMul(gain, RSub(last.value, last.pre.estimate)))
                /\ sm.variance = RMul(p, RSub(One, gain))
        /\ ( /\ sm.processVariance = One
             /\ sm.measurementVariance = RInt(4)
             /\ HistValues = <<RInt(10), RInt(12)>>
             /\ \A i \in 1..2 : InForce(hist[i].rt, RInt(4)) = RInt(4) )
           => sm.estimate = Rat(100, 9) /\ sm.variance = Rat(20, 9)

\* C3 witness: Q = 1, R = 4, add(10) then add(12).
C3_Witness ==
  /\ AfterAdd("Kalman")
  /\ sm.processVariance = One
  /\ sm.measurementVariance = RInt(4)
  /\ HistValues = <<RInt(10), RInt(12)>>
  /\ \A i \in 1..2 : hist[i].rt = UNDEF
  /\ sm.estimate = Rat(100, 9)

Constructed(c) == cls = c /\ Exists

\* A steadyState option that is a number in the open interval (0, 1).
GainOption(K) == IsRat(K) /\ RLt(Zero, K) /\ RLt(K, One)

\* C4: constructed with {steadyState: K}, 0 < K < 1, the derived variances
\* make K the steady-state gain: the variance V at which add() works with
\* gain K, (V + Q) / (V + Q + R) = K, is a fixed point of add().  (Violated:
\* it is so for K = 1/2 only.)
C4_SteadyStateGain ==
  (Constructed("Kalman") /\ GainOption(sm.options.steadyState)) =>
    LET K == sm.options.steadyState
        Q == sm.processVariance
        R == sm.measurementVariance
        V == RSub(RDiv(RMul(K, R), RSub(One, K)), Q)
        at == [sm EXCEPT !.estimate = Zero, !.variance = V]
    IN  /\ KalmanGain(RAdd(V, Q), R) = K
        /\ \A value \in KalmanValues :
             KalmanAdd(at, value, UNDEF).variance = V

ConstantStream ==
  /\ cls \in Smoothers /\ last.op = "add" /\ hist # <<>> /\ err = NoError
  /\ \A i \in 1..Len(hist) : hist[i].value = hist[1].value
  /\ cls = "Kalman" => \A i \in 1..Len(hist) : hist[i].rt = UNDEF

\* The smoother after one more add(c) at the present time.
OneMoreAdd(s, c) ==
  CASE cls = "MovingAverage" -> MovingAverageAdd(s, c, now, now)
    [] cls = "Exponential" -> ExponentialAdd(s, c, now)
    [] cls = "Kalman" -> KalmanAdd(s, c, UNDEF)

C7_NonPositiveVarianceReplaced ==
  (AfterAdd("Kalman") /\ last.rt # UNDEF /\ RLe(last.rt, Zero)) =>
    LET configured ==
          KalmanAdd(last.pre, last.value, last.pre.measurementVariance)
    IN  /\ sm.estimate = configured.estimate
        /\ sm.variance = configured.variance
        /\ last.pre.estimate = NULL =>
             sm.variance = last.pre.measurementVariance

\* C7 witness: a later sample with a negative measurement variance, after a
\* first sample with measurement variance 0.
C7_Witness ==
  /\ AfterAdd("Kalman") /\ Len(hist) = 2
  /\ hist[1].rt = Zero /\ hist[2].rt = RInt(-1)
  /\ hist[1].value # hist[2].value
  /\ last.pre.variance = sm.measurementVariance

\* C8: configured with {processVariance: 0, measurementVariance: R}, R > 0,
\* the variance after an add() is never greater than the variance before
\* it, for positive per-sample measurement variances.  (Violated: the
\* configured 0 is replaced by 1.)
C8_VarianceNonIncreasing ==
  ( /\ AfterAdd("Kalman")
    /\ sm.options.processVariance = Zero
    /\ sm.options.steadyState = UNDEF
    /\ IsRat(sm.options.measurementVariance)
    /\ RLt(Zero, sm.options.measurementVariance)
    /\ \A i \in 1..Len(hist) : hist[i].rt = UNDEF \/ RLt(Zero, hist[i].rt)
    /\ last.pre.estimate # NULL )
  => RLe(sm.variance, last.pre.variance)

\* A sample taken with zero elapsed time since the previous one.
ZeroElapsedAdd ==
  /\ AfterAdd("Exponential")
  /\ last.pre.estimate # NULL
  /\ last.pre.lastTime = RInt(last.time)

ZeroElapsedSample ==
  /\ cls = "PolarDamped" /\ last.op = "sample"
  /\ last.pre.timestamp = RInt(last.time)

ExponentialUnchanged ==
  /\ sm.estimate = last.pre.estimate /\ sm.variance = last.pre.variance
  /\ IsRat(sm.estimate) /\ IsRat(sm.variance)
  /\ sm.lastTime = RInt(last.time)

PolarDampedUnchanged ==
  /\ pd.xValue = last.pre.xValue /\ pd.yValue = last.pre.yValue
  /\ pd.xVar = last.pre.xVar /\ pd.yVar = last.pre.yVar
  /\ IsRat(pd.xValue) /\ IsRat(pd.yValue) /\ IsRat(pd.xVar) /\ IsRat(pd.yVar)
  /\ pd.timestamp = RInt(last.time)
  /\ pd.n = last.pre.n + 1

\* C10 as claimed: a sample with zero elapsed time since the previous one
\* leaves estimate and variance unchanged and advances the bookkeeping, in
\* ExponentialSmoother.add and in PolarDamped.sample.  (Violated by a
\* PolarDamped with timeConstant 0.)
C10_ZeroElapsedUnchanged ==
  /\ ZeroElapsedAdd => ExponentialUnchanged
  /\ ZeroElapsedSample => PolarDampedUnchanged

\* C10, amended: so it is in ExponentialSmoother.add, and in
\* PolarDamped.sample when timeConstant is not 0; with timeConstant 0 the
\* sample sets the estimate to the source's current vector and the
\* variances to 0, and advances timestamp and n all the same.
C10_ZeroElapsedUnchangedDamped ==
  /\ ZeroElapsedAdd => ExponentialUnchanged
  /\ ZeroElapsedSample =>
       IF last.pre.timeConstant # Zero
       THEN PolarDampedUnchanged
       ELSE /\ pd.xValue = pd.polar.xValue /\ pd.yValue = pd.polar.yValue
            /\ pd.xVar = Zero /\ pd.yVar = Zero
            /\ pd.timestamp = RInt(last.time)
            /\ pd.n = last.pre.n + 1

\* C10 witness: a PolarDamped with a time constant has taken a sample with
\* zero elapsed time while its source held another vector than its estimate.
C10_Witness ==
  /\ ZeroElapsedSample
  /\ pd.timeConstant # Zero
  /\ pd.polar.xValue # pd.xValue
  /\ pd.n = last.pre.n + 1

-----------------------------------------------------------------------------
(* Options assignment and reset *)

\* C11: assigning the options of a smoother performs a reset: afterwards the
\* history is discarded (MovingAverage window empty, Exponential lastTime
\* cleared), estimate and variance are null again, and timeSpan, tau, Q and
\* R are those a smoother constructed with the new options has.  (Violated:
\* an assignment to a KalmanSmoother that throws the steadyState error has
\* stored the options and left estimate 0, variance 0 and the old Q and R.)
C11_OptionsAssignResets ==
  (cls \in Smoothers /\ last.op = "options") =>
    LET fresh == NewOf(cls, sm.options)
    IN  /\ sm.window = <<>>
        /\ sm.lastTime \in {NULL, UNDEF}
        /\ sm.estimate = NULL
        /\ sm.variance = NULL
        /\ fresh.err = NoError
        /\ sm.timeSpan = fresh.obj.timeSpan
        /\ sm.tau = fresh.obj.tau
        /\ sm.processVariance = fresh.obj.processVariance
        /\ sm.measurementVariance = fresh.obj.measurementVariance

\* The sample values a smoother of class c is fed.
ValuesOf(c) ==
  CASE c = "MovingAverage" -> MovingAverageValues
    [] c = "Exponential" -> ExponentialValues
    [] c = "Kalman" -> KalmanValues

\* What the estimate and variance accessors of s return.
Observed(s) == <<s.estimate, s.variance>>

\* s after add(value) at time t.
AddAt(s, value, t) ==
  CASE cls = "MovingAverage" -> MovingAverageAdd(s, value, t, t)
    [] cls = "Exponential" -> ExponentialAdd(s, value, t)
    [] cls = "Kalman" -> KalmanAdd(s, value, UNDEF)

\* C12: reset() after any sequence of add() calls leaves the smoother
\* observationally equivalent to one freshly constructed with the same
\* options (options a smoother can be constructed with): every field is
\* that of the fresh smoother, so that the same add() calls at the same
\* times give the same estimates and variances; the next add() is compared
\* outright.
C12_ResetIsFresh ==
  LET fresh == NewOf(cls, sm.options)
  IN  (cls \in Smoothers /\ last.op = "reset" /\ fresh.err = NoError) =>
        /\ err = NoError
        /\ sm = fresh.obj
        /\ \A v \in ValuesOf(cls), d \in ReadGaps :
              Observed(AddAt(sm, v, now + d)) =
                Observed(AddAt(fresh.obj, v, now + d))

\* C12 witness: a reset of a smoother that held an estimate with a variance
\* above 0, that is, after at least two differing samples.
C12_Witness ==
  /\ cls \in Smoothers /\ last.op = "reset"
  /\ IsRat(last.pre.estimate)
  /\ IsRat(last.pre.variance) /\ RLt(Zero, last.pre.variance)
  /\ sm.estimate = NULL

-----------------------------------------------------------------------------
(* MessageSmoother *)

\* The keys of a record value whose values are numbers.
NumericKeys(value) == {k \in Keys : TypeofNumber(value.fields[k])}

\* The first value sampled since construction or the last reset() is a
\* record (hist holds the values of the sample() calls that returned).
RecordShaped ==
  cls = "MessageSmoother" /\ hist # <<>> /\ hist[1].type = "object"

\* C13: when the first sampled value is a record, the value accessor and
\* the variance accessor return records whose key set is the set of
\* numeric-valued keys of that first sample, after every later sample()
\* (also of records with more keys), until reset().
C13_KeySetFixed ==
  RecordShaped =>
    /\ MessageSmootherValue(ms).shape = "record"
    /\ MessageSmootherValue(ms).keys = NumericKeys(hist[1])
    /\ MessageSmootherVariance(ms).shape = "record"
    /\ MessageSmootherVariance(ms).keys = NumericKeys(hist[1])

\* C13 witness: the first sample has the key a alone, a later one the keys
\* a and b, and the accessors still return the key a alone.
C13_Witness ==
  /\ RecordShaped /\ Len(hist) >= 2
  /\ hist[1] = Object(RInt(10), UNDEF)
  /\ hist[Len(hist)] = Object(RInt(20), RInt(10))
  /\ MessageSmootherValue(ms).keys = {"a"}

\* A sample() that returned, taken by a MessageSmoother that had learned a
\* record shape before, of a value that is a record.
LaterRecordSample ==
  /\ cls = "MessageSmoother" /\ last.op = "sample" /\ err = NoError
  /\ last.pre.n > 0 /\ last.pre.isObject
  /\ last.value.type = "object"

\* C14: in record shape, a later sample that lacks a key of the learned key
\* set leaves the estimate and variance of that key's estimator unchanged,
\* while the estimators of the keys that are present are updated.
\* (Violated: sample() calls add(undefined) for the missing key, which
\* turns its estimate and variance into NaN.)
C14_MissingKeyNoUpdate ==
  LaterRecordSample =>
    \A k \in last.pre.propertyKeys :
      IF last.value.fields[k] = UNDEF
      THEN Observed(ms.byKey[k]) = Observed(last.pre.byKey[k])
      ELSE ms.byKey[k] =
             ExponentialAddAny(last.pre.byKey[k], last.value.fields[k],
                               last.time)

\* The shape a value teaches: a number a scalar, a record a record, any
\* other value none.
ShapeOf(value) ==
  IF value.type = "number" THEN "scalar"
  ELSE IF value.type = "object" THEN "record" ELSE "none"

\* Every estimate and variance the accessors of m show is null.
NothingVisible(m) ==
  /\ MessageSmootherValue(m).shape = "scalar" =>
        Observed(m.scalar) = <<NULL, NULL>>
  /\ \A k \in MessageSmootherValue(m).keys :
        Observed(m.byKey[k]) = <<NULL, NULL>>

\* The first sample() after construction or reset().
FirstSample == cls = "MessageSmoother" /\ last.op = "sample" /\ last.pre.n = 0

\* The shape after the first sample() is the one its value teaches, and the
\* estimates are those of that one sample.
LearnedAnew ==
  FirstSample =>
    /\ MessageSmootherValue(ms).shape = ShapeOf(last.value)
    /\ MessageSmootherValue(ms).keys = NumericKeys(last.value)
    /\ (err = NoError) = (ShapeOf(last.value) # "none")
    /\ ShapeOf(last.value) = "scalar" =>
          Observed(ms.scalar) = <<last.value.num, Zero>>
    /\ \A k \in MessageSmootherValue(ms).keys :
          Observed(ms.byKey[k]) = <<last.value.fields[k], Zero>>

\* C15 as claimed: reset() leaves the shape undetermined (the accessors
\* return undefined) and the next sample() learns it anew.  (Violated:
\* reset() itself builds the estimators for the shape of the handler's
\* current value.)
C15_ResetUndetermined ==
  /\ (cls = "MessageSmoother" /\ last.op = "reset") =>
        MessageSmootherValue(ms).shape = "none"
  /\ LearnedAnew

\* C15, amended: reset() leaves estimators without any sample, in the shape
\* of the handler's current value (none when that is no number and no
\* record), and n = 0; the next sample() learns the shape anew from its own
\* value, and its estimates are those of that sample alone.
C15_ResetRelearns ==
  /\ (cls = "MessageSmoother" /\ last.op = "reset") =>
        /\ ms.n = 0
        /\ MessageSmootherValue(ms).shape = ShapeOf(ms.handler.value)
        /\ MessageSmootherValue(ms).keys = NumericKeys(ms.handler.value)
        /\ NothingVisible(ms)
  /\ LearnedAnew

\* C15 witness: a MessageSmoother reset in record shape with the key a
\* becomes a scalar estimator with the next sample, the number 10.
C15_Witness ==
  /\ FirstSample
  /\ last.pre.isObject /\ last.pre.propertyKeys = {"a"}
  /\ MessageSmootherValue(ms).shape = "scalar"
  /\ MessageSmootherValue(ms).num = RInt(10)

\* C16: MessageSmoother.sample() completes without throwing whatever the
\* handler's value is; a bad value shows as a NaN or undefined estimate
\* only.  (Violated: with n = 0 and a value that is neither a number nor a
\* record, such as the null a handler starts with, reset() leaves smoother
\* null and sample() calls this.smoother.add on it.)
C16_SampleNeverThrows ==
  (cls = "MessageSmoother" /\ last.op = "sample") => err = NoError

-----------------------------------------------------------------------------
(* PolarSmoother and Polar *)

\* An ExponentialSmoother constructed with {} and fed the values vs at the
\* times ts.
RECURSIVE Fed(_, _)
Fed(vs, ts) ==
  IF vs = <<>> THEN ExponentialNew(NoOptions)
  ELSE ExponentialAdd(Fed(SubSeq(vs, 1, Len(vs) - 1),
                          SubSeq(ts, 1, Len(ts) - 1)),
                      vs[Len(vs)], ts[Len(ts)])

SampleTimes == [i \in 1..Len(hist) |-> hist[i].timestamp]

\* C17: PolarSmoother.sample() feeds the x of the source into the x
\* estimator and the y into the y estimator, one add() each, and the
\* estimators are independent: after any sequence of sample() calls the x
\* estimator is the one a smoother fed the x inputs alone at the sample
\* times is, whatever the y inputs were, and the same for y.  (Violated by
\* the PolarSmoother that createSmoothedPolar builds by default: its
\* estimators have no add() and sample() throws before feeding either.)
C17_AxesIndependent ==
  (cls = "PolarSmoother" /\ last.op = "sample") =>
    /\ err = NoError
    /\ pl.n = last.pre.n + 1
    /\ pl.xSmoother = ExponentialAdd(last.pre.xSmoother,
                                     last.pre.polar.xValue, last.time)
    /\ pl.ySmoother = ExponentialAdd(last.pre.ySmoother,
                                     last.pre.polar.yValue, last.time)
    /\ pl.xSmoother = Fed([i \in 1..Len(hist) |-> hist[i].x], SampleTimes)
    /\ pl.ySmoother = Fed([i \in 1..Len(hist) |-> hist[i].y], SampleTimes)

\* C20: createSmoothedPolar without a SmootherClass smooths with
\* ExponentialSmoother: the x and y estimators are ExponentialSmoother
\* instances and every sample() updates them without error.  (Violated:
\* the default SmootherClass there is PolarSmoother, the estimators are
\* PolarSmoother instances, and sample() throws on xSmoother.add.)
C20_DefaultIsExponential ==
  (cls = "PolarSmoother"
     /\ pl.SmootherClass = CreateSmoothedPolarDefault) =>
    /\ pl.SmootherClass = "ExponentialSmoother"
    /\ last.op = "sample" =>
          /\ err = NoError
          /\ pl.xSmoother.estimate # UNDEF
          /\ pl.n = last.pre.n + 1

\* The last two calls on the Polar were first and then second.
LastTwo(first, second) ==
  /\ cls = "Polar" /\ Len(hist) >= 2
  /\ hist[Len(hist) - 1].op = first
  /\ hist[Len(hist)].op = second

\* The Polar before the last two calls.
TwoBack == hist[Len(hist) - 1].pre

\* (x, y) of the Polar is as it was before the last two calls.
ValueRestored == pl.xValue = TwoBack.xValue /\ pl.yValue = TwoBack.yValue

\* C18: add(p) followed by substract(p) of the same operand restores (x, y)
\* of the receiver, and its variance ends increased by twice the variance
\* of the operand.  (Violated: add and substract write xValue and yValue
\* only; a Polar has no variance, before or after.)
C18_AddSubstractRoundTrip ==
  (LastTwo("add", "substract")
     /\ hist[Len(hist)].arg = hist[Len(hist) - 1].arg) =>
    /\ ValueRestored
    /\ IsRat(PolarVariance(TwoBack))
    /\ IsRat(hist[Len(hist)].arg.variance)
    /\ PolarVariance(pl) =
         RAdd(PolarVariance(TwoBack),
              RMul(RInt(2), hist[Len(hist)].arg.variance))

\* C19: rotate(t) followed by rotate(-t) restores (x, y) and the per-axis
\* variances of the Polar.  (Violated: rotate writes xValue and yValue
\* only; a Polar has no variances to restore.)
C19_RotateRoundTrip ==
  (LastTwo("rotate", "rotate")
     /\ hist[Len(hist)].arg[1] = hist[Len(hist) - 1].arg[1]
     /\ hist[Len(hist)].arg[2] = RNeg(hist[Len(hist) - 1].arg[2])) =>
    /\ ValueRestored
    /\ IsRat(PolarVariance(TwoBack))
    /\ PolarVariance(pl) = PolarVariance(TwoBack)

\* The angle a (Math.atan2 of its y and x plus turns * 2 * pi) lies in the
\* range: [0, 2 * pi) for "0to2pi", (-pi, pi] for "-piToPi".
AngleInRange(range, a) ==
  /\ IsRat(ToNumber(a.y)) /\ IsRat(ToNumber(a.x))
  /\ a.turns = IF range = "0to2pi" /\ Atan2Negative(a.y, a.x) THEN 1 ELSE 0

\* C21: the angle range configured for a vector estimator governs the angle
\* it reports: a smoother made by createSmoothedPolar with angleRange
\* "0to2pi" (which the factory sets on its Polar) reports its smoothed
\* angle in [0, 2 * pi), and with "-piToPi" in (-pi, pi].  (Violated: the
\* factory sets the range of the Polar only; the smoother keeps "-piToPi"
\* and reports a negative angle for a negative y estimate.)
C21_AngleInConfiguredRange ==
  (cls = "PolarSmoother" /\ pl.n > 0) =>
    AngleInRange(pl.polar.angleRange, PolarSmootherAngle(pl))

-----------------------------------------------------------------------------
(* Defaults and variance bounds of the smoothers *)

\* C22: a KalmanSmoother constructed without processVariance,
\* measurementVariance and steadyState uses the documented defaults,
\* process variance 0.1 and measurement variance 0.4.  (Violated: reset()
\* falls back to 1 and 4.)
C22_KalmanDocumentedDefaults ==
  (Constructed("Kalman") /\ sm.options = NoOptions) =>
    /\ sm.processVariance = Rat(1, 10)
    /\ sm.measurementVariance = Rat(4, 10)

-----------------------------------------------------------------------------
(* MessageHandler.terminate *)

\* The events since the last call of the plugin on the handler.
EventsSince == SubSeq(hist, last.value[1] + 1, Len(hist))

\* C23: terminate() unsubscribes the handler and clears its timers for
\* good: in every state after terminate(), deltas for the path have not
\* changed value, timestamp or frequency, no callback was invoked, no idle
\* timer is pending and stale has not changed.  (Violated: the delta input
\* handler stays registered; a later delta writes value and timestamp and
\* starts the idle timer again, which then sets stale.)
C23_TerminateForGood ==
  (cls = "MessageHandler" /\ last.op = "terminate") =>
    /\ ms.value = last.pre.value
    /\ ms.timestamp = last.pre.timestamp
    /\ ms.frequency = last.pre.frequency
    /\ ms.stale = last.pre.stale
    /\ ms.idleDue = 0
    /\ \A i \in 1..Len(EventsSince) : EventsSince[i] \in {"delta", "next"}

-----------------------------------------------------------------------------
(* PolarTable *)

\* The last call on the table was a lookup.
LookedUp == cls = "PolarTable" /\ last.op \in Lookups

\* C24: every lookup of an empty PolarTable returns null, for every wind
\* speed and angle.
C24_EmptyTableNull ==
  (cls = "PolarTable" /\ pt.table = <<>>) =>
    /\ \A op \in Lookups, tws \in LookupSpeeds, twa \in LookupAngles :
          PolarTableLookup(pt, op, tws, twa) = NULL
    /\ LookedUp => last.rt = NULL

\* C24 witness: getVMG was called on an empty table whose performance
\* adjustment is not 1.
C24_Witness ==
  /\ LookedUp /\ pt.table = <<>>
  /\ last.op = "getVMG" /\ last.rt = NULL
  /\ pt.perfAdjust # One

\* What the last lookup returns with performance adjustment 1.
Unadjusted ==
  PolarTableLookup([pt EXCEPT !.perfAdjust = One], last.op,
                   last.value[1], last.value[2])

\* C25: the speed results (getBoatSpeed, getBeatVMG, getRunVMG,
\* getMaxSpeed) are the result with performance adjustment 1 times the
\* current factor, and the angle results (getBeatAngle, getRunAngle,
\* getMaxSpeedAngle) do not depend on the factor, whatever calls of
\* setPerformanceAdjustment came before.
C25_PerformanceAdjustment ==
  (LookedUp /\ pt.table # <<>>) =>
    /\ last.op \in DOMAIN SpeedLookups \cup {"getBoatSpeed"} =>
          last.rt = RMul(Unadjusted, pt.perfAdjust)
    /\ last.op \in DOMAIN AngleLookups => last.rt = Unadjusted

\* C25 witness: getBoatSpeed between two wind speeds of the table, after
\* two calls of setPerformanceAdjustment, differs from the unadjusted
\* speed.
C25_Witness ==
  /\ LookedUp /\ Len(pt.table) = 2
  /\ last.op = "getBoatSpeed" /\ last.value = <<RInt(3), Rat(-1, 3)>>
  /\ pt.perfAdjust = Rat(9, 10)
  /\ last.rt # Unadjusted

-----------------------------------------------------------------------------
(* Kalman gain and variance bounds *)

\* The gain the last KalmanSmoother.add() computed.
LastGain ==
  KalmanGain(RAdd(last.pre.variance, last.pre.processVariance),
             KalmanMeasurementVariance(last.pre, last.rt))

\* C26: in every KalmanSmoother.add() after the first sample, for any
\* values and any measurement variances given with them (positive, zero or
\* negative), with Q > 0 and R > 0 in force, the Kalman gain is strictly
\* between 0 and 1.
C26_GainInUnitInterval ==
  ( /\ AfterAdd("Kalman") /\ last.pre.estimate # NULL
    /\ RLt(Zero, last.pre.processVariance)
    /\ RLt(Zero, last.pre.measurementVariance) ) =>
    /\ RLt(Zero, LastGain) /\ RLt(LastGain, One)
    /\ sm.variance =
         RMul(RAdd(last.pre.variance, last.pre.processVariance),
              RSub(One, LastGain))
    /\ RLt(Zero, sm.variance)

\* C26 witness: a third sample given with measurement variance 0, after a
\* sample given with a negative one.
C26_Witness ==
  /\ AfterAdd("Kalman") /\ Len(hist) = 3
  /\ hist[2].rt = RInt(-1) /\ hist[3].rt = Zero
  /\ hist[2].value # hist[3].value
  /\ RLt(Rat(1, 2), LastGain)

\* The configuration in force is positive: timeSpan > 0, tau > 0, Q > 0 and
\* R > 0.
PositiveConfiguration ==
  CASE cls = "MovingAverage" -> RLt(Zero, sm.timeSpan)
    [] cls = "Exponential" -> RLt(Zero, sm.tau)
    [] cls = "Kalman" -> /\ RLt(Zero, sm.processVariance)
                         /\ RLt(Zero, sm.measurementVariance)

\* C27: for every strategy with a positive configuration, numeric samples
\* and a clock that does not go back, variance is >= 0 in every state after
\* at least one add().  (Violated by MovingAverageSmoother: when the clock
\* advances by more than timeSpan between the two Date.now() of one add(),
\* the window ends empty and variance is NaN.)
C27_VarianceNotNegative ==
  (cls \in Smoothers /\ AfterAdd(cls) /\ PositiveConfiguration) =>
    IsRat(sm.variance) /\ RLe(Zero, sm.variance)

\* The weight of the last ExponentialSmoother.add().
LastAlpha == ExponentialAlpha(last.pre.lastTime, last.time, last.pre.tau)

\* A sample after the first one.
LaterAdd == AfterAdd("Exponential") /\ last.pre.estimate # NULL

\* C28: ExponentialSmoother.add() on a sample after the first sets
\* variance' = (1 - a) * (variance + a * (value - e)^2), a the weight of the
\* step and e the estimate held before the call, not the one just written.
C28_VarianceFromPriorEstimate ==
  LaterAdd =>
    sm.variance =
      RMul(RSub(One, LastAlpha),
           RAdd(last.pre.variance,
                RMul(LastAlpha, RSq(RSub(last.value, last.pre.estimate)))))

\* C28 witness: a sample that moved the estimate, where the residual
\* against the new estimate is another number than the one against the old.
C28_Witness ==
  /\ LaterAdd
  /\ sm.estimate # last.pre.estimate /\ sm.estimate # last.value
  /\ RLt(Zero, sm.variance)

\* The KalmanSmoother s after the add() calls of h in their order, whenever
\* they were made.
RECURSIVE KalmanFed(_, _)
KalmanFed(s, h) ==
  IF h = <<>> THEN s
  ELSE KalmanAdd(KalmanFed(s, SubSeq(h, 1, Len(h) - 1)),
                 h[Len(h)].value, h[Len(h)].rt)

\* C29: KalmanSmoother applies the process-variance growth once per add(),
\* whatever time has passed: estimate and variance after a sequence of
\* add() calls are those of the values and measurement variances alone, the
\* same for every assignment of times to the calls.
C29_TimingIndependent ==
  cls = "Kalman" =>
    Observed(sm) = Observed(KalmanFed(KalmanNew(sm.options).obj, hist))

\* C29 witness: three samples, the second 500 ms after the first and the
\* third later than 500 ms after the second.
C29_Witness ==
  /\ cls = "Kalman" /\ Len(hist) = 3
  /\ hist[2].timestamp = hist[1].timestamp + 500
  /\ hist[3].timestamp > hist[2].timestamp + 500
  /\ hist[1].value # hist[2].value
  /\ RLt(Zero, sm.variance)

-----------------------------------------------------------------------------
(* Deltas for a subscribed Polar *)

\* The samples taken for the last delta.
SamplesOfDelta == SubSeq(hist, last.pre.n + 1, Len(hist))

\* The delta carried both paths.
BothPaths ==
  ~WithoutPath(last.value, "magnitude") /\ ~WithoutPath(last.value, "angle")

\* C30: for a delta that carries both the magnitude path and the angle path
\* of a subscribed Polar feeding a PolarSmoother, the smoother takes
\* exactly one sample, built from both new values; no sample is taken from
\* the new value of one path with the previous value of the other.
\* (Violated: each handler runs processChanges on its own, so the smoother
\* takes two samples, the first from one new and one previous value.)
C30_OneSamplePerDelta ==
  (cls = "PolarSmoother" /\ last.op = "delta" /\ BothPaths) =>
    /\ Len(SamplesOfDelta) = 1
    /\ \A i \in 1..Len(SamplesOfDelta) :
          /\ SamplesOfDelta[i].x =
                RMul(last.value.magnitude, last.value.angle[1])
          /\ SamplesOfDelta[i].y =
                RMul(last.value.magnitude, last.value.angle[2])

-----------------------------------------------------------------------------
(* MessageHandler: staleness and the delta input handler *)

\* The handler is subscribed; subscribe() was the last call of the plugin.
Subscribed == cls = "MessageHandler" /\ last.op = "subscribe"

\* The time the idle period started at: the time of subscribe() or, when
\* later, of the last matching delta.
IdleStart ==
  IF ms.timestamp # NULL /\ ms.timestamp[1] > last.time
  THEN ms.timestamp[1] ELSE last.time

\* stale tells whether the idle period has elapsed, and the timer pending
\* is the one started at the start of the idle period.
StaleWhenElapsed ==
  /\ ms.idleTimer
  /\ ms.stale <=> ms.idleDue = 0
  /\ ms.idleDue # 0 => ms.idleDue = IdleStart + idlePeriod
  /\ ms.stale => now >= IdleStart + idlePeriod

\* C31: after a successful subscribe(), stale is true exactly when
\* idlePeriod has elapsed with no matching delta since subscribe() or since
\* the last matching delta; onIdle is called once at the moment stale
\* becomes true and not again while it stays true; a matching delta sets
\* stale back to false and restarts the idle period, and the one timer
\* pending is the one started last.  (Violated: a handler that was stale
\* when it was terminated is stale from the moment it is subscribed again,
\* _resetIdleTimer clears stale only when it finds a timer.)
C31_StaleWhenIdle ==
  [][Subscribed' =>
       /\ StaleWhenElapsed'
       /\ (~ms.stale /\ ms'.stale) => hist' = Append(hist, "onIdle")
       /\ (Subscribed /\ ms.stale /\ ms'.stale) =>
            Events("onIdle")' = Events("onIdle")]_vars

\* The step is the delivery of a delta.
Delivered ==
  /\ cls = "MessageHandler"
  /\ Len(hist') > Len(hist)
  /\ hist'[Len(hist) + 1] = "delta"

\* The update is one the plugin sent itself.
Own(update) == update.label = pluginId
NotOwn(update) == ~Own(update)

\* The delta without the updates the plugin sent itself.
WithoutOwn(delta) == [delta EXCEPT !.updates = SelectSeq(@, NotOwn)]

\* All updates of the delta, and at least one, are the plugin's own.
OwnOnly(delta) ==
  /\ delta.hasUpdates
  /\ delta.updates # <<>>
  /\ \A i \in 1..Len(delta.updates) : Own(delta.updates[i])

\* C32: an update whose source label is the plugin's own pluginId never
\* changes a MessageHandler: the handler is after the delta as it is after
\* the same delta without the plugin's own updates, with the same callbacks
\* called, and a delta of own updates only leaves value, timestamp,
\* frequency, stale and the idle timer as they are and calls no onChange.
C32_OwnUpdatesIgnored ==
  [][Delivered =>
       /\ ms' = PassDelta(NotPassed(ms), WithoutOwn(delivery'.delta),
                          ms.registered, now).obj
       /\ hist' = Append(hist, "delta")
                  \o PassDelta(NotPassed(ms), WithoutOwn(delivery'.delta),
                               ms.registered, now).calls
       /\ OwnOnly(delivery'.delta) =>
            /\ ms' = ms
            /\ \A i \in Len(hist) + 1..Len(hist') : hist'[i] # "onChange"]_vars

\* A delta of the plugin's own updates with a value for the path was
\* delivered to a subscribed handler with onChange set.
C32_Witness ==
  /\ cls = "MessageHandler"
  /\ delivery.handlers > 0
  /\ OwnOnly(delivery.delta)
  /\ Found([delivery.delta EXCEPT !.updates[1].label = otherLabel])
  /\ ms.subscribed /\ ms.onChange
  /\ hist[Len(hist)] = "next"

\* C33: for every delta delivered, each delta input handler registered
\* calls next(delta) exactly once, after any onChange callback, and no
\* error ends the chain.  (Violated: for a delta without an updates list
\* delta?.updates.forEach throws a TypeError before next is called.)
C33_NextCalledOnce ==
  [][Delivered =>
       /\ err' = NoError
       /\ Events("next")' = Events("next") + ms.registered
       /\ hist'[Len(hist')] = "next"
       /\ \A i \in Len(hist) + 1..Len(hist') :
            hist'[i] = "onChange" => hist'[i + 1] = "next"]_vars

-----------------------------------------------------------------------------
(* The window of the MovingAverageSmoother *)

\* C34: after every MovingAverageSmoother.add() with timeSpan > 0 the
\* window is not empty and its last entry is the sample just added, and
\* estimate and variance are numbers, for every timing of the two clock
\* reads of add().  (Violated: the entry is stamped with the first
\* Date.now() and the cutoff taken from the second; when more than timeSpan
\* passes between the two, the entry just pushed is filtered out, the
\* window is empty and estimate and variance are 0 / 0.)
C34_WindowNotEmpty ==
  (AfterAdd("MovingAverage") /\ RLt(Zero, sm.timeSpan)) =>
    /\ sm.window # <<>>
    /\ sm.window[Len(sm.window)].value = last.value
    /\ IsRat(sm.estimate)
    /\ IsRat(sm.variance)

-----------------------------------------------------------------------------
(* An options assignment that throws *)

\* C35: when assigning options to an existing KalmanSmoother throws the
\* steadyState error, the smoother is as it was before the assignment: it
\* has its previous options, Q and R and its previous estimate and
\* variance.  (Violated: the setter has stored the new options and
\* BaseSmoother.reset() has set estimate and variance to 0 before the
\* error is thrown.)
C35_FailedAssignmentChangesNothing ==
  (cls = "Kalman" /\ last.op = "options" /\ err = SteadyStateError) =>
    /\ sm.options = last.pre.options
    /\ sm.processVariance = last.pre.processVariance
    /\ sm.measurementVariance = last.pre.measurementVariance
    /\ sm.estimate = last.pre.estimate
    /\ sm.variance = last.pre.variance

-----------------------------------------------------------------------------
(* The sample count and onChange of MessageSmoother and PolarSmoother *)

\* The MessageSmoother or PolarSmoother under test.
Sampler == IF cls = "MessageSmoother" THEN ms ELSE pl

\* C36: for MessageSmoother and PolarSmoother, n is the number of sample()
\* calls completed since construction or the last reset(), and a sample()
\* that completes calls onChange, when it is set, exactly once, with the
\* estimators, timestamp and n already updated (the callback finds the
\* object as sample() leaves it); a sample() that throws calls nothing.
C36_CountAndOnChange ==
  (cls \in {"MessageSmoother", "PolarSmoother"}) =>
    /\ Sampler.n = Len(hist)
    /\ (last.op = "sample" /\ err = NoError) =>
         /\ Sampler.n = last.pre.n + 1
         /\ Sampler.timestamp = RInt(last.time)
         /\ last.rt = IF last.pre.onChange THEN <<Sampler>> ELSE <<>>
    /\ (last.op = "sample" /\ err # NoError) =>
         /\ Sampler.n = last.pre.n
         /\ last.rt = <<>>

\* A second sample() of a MessageSmoother with onChange set has completed.
C36_Witness ==
  /\ cls = "MessageSmoother"
  /\ last.op = "sample" /\ err = NoError
  /\ last.pre.onChange
  /\ ms.n = 2 /\ Len(last.rt) = 1 /\ last.rt[1].n = 2

-----------------------------------------------------------------------------
(* The interpolation of a PolarTable by wind speed *)

\* v lies between a and b, whichever of the two is the greater.
Between(v, a, b) ==
  \/ RLe(a, v) /\ RLe(v, b)
  \/ RLe(b, v) /\ RLe(v, a)

\* The entries of table are in ascending order of tws.
SortedByTws(table) ==
  \A i \in 1..Len(table), j \in 1..Len(table) :
     i < j => RLt(table[i].tws, table[j].tws)

\* What _findTwsInterpolation has to return for target on a sorted table:
\* i is what it returned.
Brackets(table, target, i) ==
  /\ i.found
  /\ i.lowerIndex \in 1..Len(table) /\ i.upperIndex \in 1..Len(table)
  /\ i.lowerIndex <= i.upperIndex /\ i.upperIndex <= i.lowerIndex + 1
  /\ RLe(Zero, i.ratio) /\ RLt(i.ratio, One)
  /\ RLt(target, table[1].tws) => i = Interpolation(1, 1, Zero)
  /\ RLt(table[Len(table)].tws, target) =>
       i = Interpolation(Len(table), Len(table), Zero)
  /\ (RLe(table[1].tws, target) /\ RLe(target, table[Len(table)].tws)) =>
       /\ RLe(table[i.lowerIndex].tws, target)
       /\ RLe(target, table[i.upperIndex].tws)

\* What the last lookup returns on the table of one entry of the table
\* held: the value of that entry, with the performance adjustment of the
\* table for the speeds.
EntryValue(index) ==
  PolarTableLookup([pt EXCEPT !.table = <<pt.table[index]>>], last.op,
                   last.value[1], last.value[2])

\* The last lookup lies between the values of the entries at i.
BetweenEntries(i) ==
  Between(last.rt, EntryValue(i.lowerIndex), EntryValue(i.upperIndex))

\* C37: on a PolarTable sorted by ascending tws, _findTwsInterpolation
\* returns indices with lowerIndex <= upperIndex <= lowerIndex + 1 and a
\* ratio with 0 <= ratio < 1; the two entries bracket a target within the
\* range of the table, a target below the range gets the first entry and
\* one above it the last entry, both with ratio 0; and every lookup lies
\* between the values of the two entries returned for its wind speed.
C37_BracketingEntries ==
  (cls = "PolarTable" /\ pt.table # <<>> /\ SortedByTws(pt.table)) =>
    /\ \A tws \in LookupSpeeds :
         Brackets(pt.table, tws, FindTwsInterpolation(pt.table, tws))
    /\ LookedUp =>
         BetweenEntries(FindTwsInterpolation(pt.table, last.value[1]))

\* C37 witness: getBoatSpeed at 5 m/s on the table of three entries is
\* interpolated half way between the second and the third entry, and lies
\* strictly between the speeds of the two.
C37_Witness ==
  /\ LookedUp /\ Len(pt.table) = 3 /\ SortedByTws(pt.table)
  /\ last.op = "getBoatSpeed" /\ last.value = <<RInt(5), Rat(1, 2)>>
  /\ FindTwsInterpolation(pt.table, RInt(5)) = Interpolation(2, 3, Rat(1, 2))
  /\ last.rt # EntryValue(2) /\ last.rt # EntryValue(3)
  /\ BetweenEntries(Interpolation(2, 3, Rat(1, 2)))

====
